---- MODULE Spec2Model ----
(***************************************************************************)
(* A model of MboxManagerApp (src/main.py): the ingestion worker           *)
(* (load_mbox, extract_email_body), the consumer side (browse_file,        *)
(* cancel_loading, check_queue, apply_filters, clear_filters,              *)
(* remove_selected, the selection and the page navigation), the in-place   *)
(* rewrite (export_remaining,                                              *)
(* modify_original_mbox) and the export to a new file                      *)
(* (export_to_new_file, export_to_new_file_worker) over a small file       *)
(* system.                                                                 *)
(*                                                                         *)
(* Files are sequences of raw records.  A path names an inode, an open     *)
(* handle names an inode too, so that a rename replaces what a path names  *)
(* without changing what an open handle reads (POSIX), and os.remove       *)
(* followed by a failed os.rename leaves the path without a file.          *)
(*                                                                         *)
(* The thresholds of the program that count records (the preview after     *)
(* 100 loaded records, the chunk of 1000 records, a progress event every   *)
(* 100 records) are scaled down, keeping their order; each is named after  *)
(* the line of the source that sets it.                                    *)
(***************************************************************************)
EXTENDS Integers, Sequences, FiniteSets, TLC

\* ------------------------------------------------------------------ bounds

\* Longest archive the model reads.
MaxRecords == 3

\* Ingestion workers that browse_file can start in one run.
MaxLoads == 2

\* Rewrite workers that export_remaining can start in one run.
MaxExports == 2

\* Events the queue holds before the consumer is made to poll (the program's
\* queue is unbounded and polled every 100 ms).
MaxQueue == 3

\* Times the user asks for a rewrite in one run.
MaxExportCalls == 2

\* Largest sampling rate the user enters.
MaxRate == 3

\* Times the user changes or clears the filters in one run.
MaxFilterings == 1

\* Times the user removes records from the view in one run.
MaxRemovals == 1

\* Times the user changes the selection in one run.
MaxSelections == 1

\* ------------------------------------------------ constants of the program

\* load_mbox: "if self.emails_loaded == 100 and len(self.emails) == 0" (scaled).
PREVIEW_AT == 2

\* load_mbox: chunk_size = 1000 (scaled).
chunk_size == 3

\* modify_original_mbox: "if i % 100 == 0 or ..." (scaled).
PROGRESS_EVERY == 2

\* load_mbox: "self.total_emails > 1000000" (scaled).
RANDOM_TOTAL_MIN == 4

\* load_mbox: "sampling_rate > 100" (scaled).
RANDOM_RATE_MIN == 2

\* __init__: self.emails_per_page = 100 (scaled).
emails_per_page == 2

\* load_mbox: "if file_size_mb > 1000" (scaled); browse_file offers the
\* sampled mode above the same size (1 GB).
LARGE_FILE_MB == 2

\* load_mbox: estimated_emails = int(file_size_mb * 10) (scaled).
ESTIMATE_PER_MB == 2

LWorkers == 1..MaxLoads
RWorkers == 1..MaxExports

\* Every file gets the inode of its creator: the archive, the backup, the
\* temporary mailbox of a rewrite worker, the file its flush writes, the
\* archive an ingestion worker creates when the path names none, the file an
\* export to a new file creates.
InoOrig == 1
InoBackup == 2
InoTemp(w) == 2 + w
InoFlush(w) == 2 + MaxExports + w
InoLoad(w) == 2 + 2 * MaxExports + w
InoNew(w) == 2 + 2 * MaxExports + MaxLoads + w
Inodes == 1..(2 + 3 * MaxExports + MaxLoads)
Paths == {"orig", "temp", "backup", "new"}

\* ------------------------------------------------------------ raw records

\* A raw record of the archive: its Message-ID header (0: absent or empty),
\* the other fields the identity is synthesized from (body), and whether
\* extract_email_data raises on it.
RawRecords ==
  {r \in [mid : 0..1, body : 1..2, bad : BOOLEAN] :
     /\ r.mid # 0 => r.body = 1
     /\ r.bad => (r.mid = 0 /\ r.body = 1)}

RECURSIVE SeqsUpTo(_, _)
SeqsUpTo(S, n) ==
  IF n = 0 THEN {<<>>}
  ELSE LET shorter == SeqsUpTo(S, n - 1)
       IN  shorter \cup {Append(s, x) : s \in {t \in shorter : Len(t) = n - 1}, x \in S}

Archives == SeqsUpTo(RawRecords, MaxRecords)

Min(a, b) == IF a < b THEN a ELSE b
Max(a, b) == IF a > b THEN a ELSE b

\* hash() of the synthesized-identity string: a fixed function of the fields
\* within one run of the program.
Hash(body) == (body * 31 + 7) % 61

\* extract_email_data, lines 734-738: the identity of a raw record.
MessageId(r) ==
  IF r.mid # 0 THEN <<"native", r.mid>> ELSE <<"generated", Hash(r.body)>>

\* re.sub(r'<[^>]+>', ' ', html), line 783: every '<', one or more characters
\* other than '>', '>' becomes one blank.
RECURSIVE StripTags(_)
StripTags(s) ==
  IF s = <<>> THEN s
  ELSE IF /\ Head(s) = "<"
          /\ \E j \in 3..Len(s) : s[j] = ">" /\ \A i \in 2..(j - 1) : s[i] # ">"
       THEN LET j == CHOOSE n \in 3..Len(s) :
                       s[n] = ">" /\ \A i \in 2..(n - 1) : s[i] # ">"
            IN  <<" ">> \o StripTags(SubSeq(s, j + 1, Len(s)))
       ELSE <<Head(s)>> \o StripTags(Tail(s))

\* Lines 760-786, the loop over message.walk() from part k on, body being the
\* text so far.  A part has its content type, whether its Content-Disposition
\* holds "attachment", and its decoded payload.
RECURSIVE WalkParts(_, _, _)
WalkParts(parts, k, body) ==
  IF k > Len(parts) THEN body
  ELSE LET part == parts[k]
       IN  IF part.attachment THEN WalkParts(parts, k + 1, body)
           ELSE IF part.content_type = "text/plain"
             THEN WalkParts(parts, k + 1, body \o part.payload \o <<"\n">>)
           ELSE IF part.content_type = "text/html" /\ body = <<>>
             THEN WalkParts(parts, k + 1, body \o StripTags(part.payload))
           ELSE WalkParts(parts, k + 1, body)

\* extract_email_body, lines 755-795: for a multi-part record the text the
\* loop over its parts builds, else the text of the record (the records of
\* the archives that carry no text of their own have the one letter their
\* body stands for).
ExtractEmailBody(r) ==
  IF "parts" \in DOMAIN r THEN WalkParts(r.parts, 1, <<>>)
  ELSE IF "text" \in DOMAIN r THEN r.text
  ELSE IF r.body = 1 THEN <<"I">> ELSE <<"R">>

\* extract_email_data as a whole: the email_data dict of the record at
\* position pos read by ingestion worker w.  The 'message' object is known by
\* who read it and where (two reads give two objects); 'body' is the text
\* extract_email_body gives (line 745).
ExtractEmailData(w, pos, r) ==
  [w |-> w, pos |-> pos, raw |-> r, message_id |-> MessageId(r),
   body |-> ExtractEmailBody(r)]

VARIABLES
  os_name,                 \* os.name: "nt" or "posix"
  file_size_mb,            \* os.path.getsize of the archive, in MB (scaled)
  disk,                    \* path -> inode, 0 when no file is at the path
  fs,                      \* inode -> content, a sequence of raw records
  mbox,                    \* self.mbox
  emails,                  \* self.emails
  filtered_emails,         \* self.filtered_emails
  emails_loaded,           \* self.emails_loaded
  total_emails,            \* self.total_emails
  loading_cancelled,       \* self.loading_cancelled
  email_id_tracker,        \* self.email_id_tracker
  selected_email_indices,  \* self.selected_email_indices
  current_page,            \* self.current_page
  total_pages,             \* self.total_pages
  queue,                   \* self.queue
  ui,                      \* the state of the buttons
  ld,                      \* ingestion workers (threads running load_mbox)
  rw,                      \* rewrite workers (threads running modify_original_mbox)
  hist                     \* history of the run, read by the properties only

vars ==
  <<os_name, file_size_mb, disk, fs, mbox, emails, filtered_emails,
    emails_loaded, total_emails, loading_cancelled, email_id_tracker, selected_email_indices,
    current_page, total_pages, queue, ui, ld, rw, hist>>

sessionVars ==
  <<emails, filtered_emails, emails_loaded, total_emails, loading_cancelled,
    email_id_tracker, selected_email_indices, current_page, total_pages>>

\* ------------------------------------------------------------ file system

\* self.mbox: the file it reads, whether it is open, the number of its keys
\* once they were read (-1 before), and the ingestion worker that created it
\* and iterates it (0: none).
NoHandle == [ino |-> 0, open |-> FALSE, toc |-> -1, by |-> 0]

\* The inodes a path or an open handle names.
Used(d, mb, l, r) ==
  ({d[p] : p \in Paths}
     \cup (IF mb.open THEN {mb.ino} ELSE {})
     \cup {l[w].ino : w \in DOMAIN l}
     \cup {r[w].ino : w \in DOMAIN r}) \ {0}

\* The content of an inode nothing names is gone.
Gc(f, d, mb, l, r) ==
  [i \in Inodes |-> IF i \in Used(d, mb, l, r) THEN f[i] ELSE <<>>]

\* The file at a path: whether the path names one, and its content.
Absent == [exists |-> FALSE, data |-> <<>>]
FileAt(d, f, p) == IF d[p] = 0 THEN Absent ELSE [exists |-> TRUE, data |-> f[d[p]]]

\* ------------------------------------------------------------ event queue

\* An event of the queue: the tuple (action, data).
Ev(tag, data) == [tag |-> tag, data |-> data]

CanPut(n) == Len(queue) + n <= MaxQueue

\* min(int((done / total) * 100), 100)
Percent(done, total) == Min((done * 100) \div total, 100)

\* ------------------------------------------------------------ rewrite worker

\* An export worker: a thread running modify_original_mbox or
\* export_to_new_file_worker.  list is the content of the list object its loop
\* iterates, live whether self.filtered_emails is still that object.
IdleRw ==
  [pc |-> "idle", ino |-> 0, toc |-> <<>>, pending |-> FALSE, flen |-> 0,
   i |-> 0, total |-> 0, list |-> <<>>, live |-> FALSE]

\* self.filtered_emails is assigned a new list: the loops that iterate the old
\* one keep it.
Rebound(r) == [w \in DOMAIN r |-> [r[w] EXCEPT !.live = FALSE]]

\* self.filtered_emails is changed in place to fe: the loops that iterate it
\* see the change.
Mutated(r, fe) ==
  [w \in DOMAIN r |->
     IF r[w].live /\ r[w].pc \in {"write", "new_write"}
     THEN [r[w] EXCEPT !.list = fe] ELSE r[w]]

\* stale: the worker found records in the temporary file when it opened it;
\* shared: another worker had the temporary path in use at some point between
\* this worker's opening of it and its rename.
IdleRwHist ==
  [backup_requested |-> FALSE, backup_complete |-> FALSE, orig0 |-> Absent,
   temp_done |-> FALSE, touched |-> FALSE, outcome |-> "none", view0 |-> <<>>,
   stale |-> FALSE, shared |-> FALSE]

\* The workers between the opening of the temporary file and its rename.
UsingTemp(r) ==
  {w \in DOMAIN r : r[w].pc \in {"write", "close_orig", "replace", "rename"}}

\* The except clause of modify_original_mbox, lines 1622-1627.
RwOuterExcept(w) ==
  /\ CanPut(2)
  /\ queue' = queue \o <<Ev("error", "modify"),
                         Ev("status", "modification_failed")>>
  /\ rw' = [rw EXCEPT ![w].pc = "done", ![w].ino = 0]
  /\ fs' = Gc(fs, disk, mbox, ld, rw')
  /\ hist' = [hist EXCEPT !.rw[w].outcome = "write_failed"]
  /\ UNCHANGED <<os_name, file_size_mb, disk, mbox, sessionVars, ui, ld>>

\* The inner except clause, lines 1615-1620.
RwInnerExcept(w, d) ==
  /\ CanPut(2)
  /\ queue' = queue \o <<Ev("error", "replace"),
                         Ev("status", "orig_unchanged_temp_at")>>
  /\ rw' = [rw EXCEPT ![w].pc = "done"]
  /\ disk' = d
  /\ fs' = Gc(fs, d, mbox, ld, rw')
  /\ hist' = [hist EXCEPT !.rw[w].outcome = "replace_failed"]
  /\ UNCHANGED <<os_name, file_size_mb, mbox, sessionVars, ui, ld>>

\* mailbox.mbox(temp_file_path) without the clear() of line 1525: the keys of
\* a file left at the path stay, and the flush rewrites nothing.
RwOpenTempNoClear(w) ==
  /\ rw[w].pc = "start"
  /\ \/ RwOuterExcept(w)
     \/ /\ LET ino   == IF disk["temp"] # 0 THEN disk["temp"] ELSE InoTemp(w)
               stale == IF disk["temp"] # 0 THEN Len(fs[ino]) ELSE 0
           IN  /\ disk' = [disk EXCEPT !["temp"] = ino]
               /\ fs' = IF disk["temp"] # 0 THEN fs ELSE [fs EXCEPT ![ino] = <<>>]
               /\ rw' = [rw EXCEPT ![w].pc = "write", ![w].ino = ino,
                                   ![w].toc = [k \in 1..stale |-> k],
                                   ![w].pending = FALSE,
                                   ![w].flen = stale, ![w].i = 0,
                                   ![w].total = Len(filtered_emails),
                                   ![w].list = filtered_emails,
                                   ![w].live = TRUE]
               /\ hist' = [hist EXCEPT !.rw =
                             [v \in RWorkers |->
                                IF v = w
                                THEN [hist.rw[v] EXCEPT
                                        !.stale = (stale > 0),
                                        !.shared = (UsingTemp(rw) # {})]
                                ELSE IF v \in UsingTemp(rw)
                                THEN [hist.rw[v] EXCEPT !.shared = TRUE]
                                ELSE hist.rw[v]]]
        /\ UNCHANGED <<os_name, file_size_mb, mbox, sessionVars, queue, ui, ld>>

\* Lines 1520-1537: temp_file_path = file_path + ".temp", mailbox.mbox of it,
\* clear(), total_emails = len(self.filtered_emails) and the iterator of the
\* loop over self.filtered_emails.  The mailbox is created
\* when the path names no file; clear() drops every key of a file left there
\* and marks the mailbox for a rewrite at the next flush.
RwOpenTemp(w) ==
  /\ rw[w].pc = "start"
  /\ \/ RwOuterExcept(w)
     \/ /\ LET ino   == IF disk["temp"] # 0 THEN disk["temp"] ELSE InoTemp(w)
               stale == IF disk["temp"] # 0 THEN Len(fs[ino]) ELSE 0
           IN  /\ disk' = [disk EXCEPT !["temp"] = ino]
               /\ fs' = IF disk["temp"] # 0 THEN fs ELSE [fs EXCEPT ![ino] = <<>>]
               /\ rw' = [rw EXCEPT ![w].pc = "write", ![w].ino = ino,
                                   ![w].toc = <<>>, ![w].pending = (stale > 0),
                                   ![w].flen = stale, ![w].i = 0,
                                   ![w].total = Len(filtered_emails),
                                   ![w].list = filtered_emails,
                                   ![w].live = TRUE]
               /\ hist' = [hist EXCEPT !.rw =
                             [v \in RWorkers |->
                                IF v = w
                                THEN [hist.rw[v] EXCEPT
                                        !.stale = (stale > 0),
                                        !.shared = (UsingTemp(rw) # {})]
                                ELSE IF v \in UsingTemp(rw)
                                THEN [hist.rw[v] EXCEPT !.shared = TRUE]
                                ELSE hist.rw[v]]]
        /\ UNCHANGED <<os_name, file_size_mb, mbox, sessionVars, queue, ui, ld>>

\* Lines 1537-1581, one turn of the loop: temp_mbox.add(email_data['message'])
\* appends the message at the end of the file; a progress and a status event
\* every PROGRESS_EVERY records or when half a second has passed (tick).
RwAdd(w) ==
  /\ rw[w].pc = "write"
  /\ rw[w].i < Len(rw[w].list)
  /\ \/ RwOuterExcept(w)
     \/ \E tick \in BOOLEAN :
          LET e    == rw[w].list[rw[w].i + 1]
              ino  == rw[w].ino
              evs  == IF rw[w].i % PROGRESS_EVERY = 0 \/ tick
                      THEN <<Ev("progress", Percent(rw[w].i + 1, rw[w].total)),
                             Ev("status", "processed")>>
                      ELSE <<>>
          IN  /\ CanPut(Len(evs))
              /\ fs' = [fs EXCEPT ![ino] = Append(@, e.raw)]
              /\ rw' = [rw EXCEPT ![w].toc = Append(@, Len(fs[ino]) + 1),
                                  ![w].flen = Len(fs[ino]) + 1,
                                  ![w].i = @ + 1]
              /\ queue' = queue \o evs
              /\ UNCHANGED <<os_name, file_size_mb, disk, mbox, sessionVars, ui, ld, hist>>

\* Lines 1583-1585: temp_mbox.flush(); temp_mbox.close().  A pending rewrite
\* fails when the file's length is not the length the mailbox recorded
\* (ExternalClashError); otherwise the keys' messages are written to a new
\* file that is renamed over the path.
RwFlushClose(w) ==
  /\ rw[w].pc = "write"
  /\ rw[w].i >= Len(rw[w].list)
  /\ \/ RwOuterExcept(w)
     \/ /\ rw[w].pending
        /\ Len(fs[rw[w].ino]) # rw[w].flen
        /\ RwOuterExcept(w)
     \/ /\ rw[w].pending => Len(fs[rw[w].ino]) = rw[w].flen
        /\ LET old  == rw[w].ino
               kept == [k \in 1..Len(rw[w].toc) |-> fs[old][rw[w].toc[k]]]
               r2   == [rw EXCEPT ![w].pc = "close_orig", ![w].ino = 0,
                                  ![w].pending = FALSE]
           IN  /\ rw' = r2
               /\ IF rw[w].pending
                  THEN LET new == InoFlush(w)
                           d2  == [disk EXCEPT !["temp"] = new]
                       IN  /\ disk' = d2
                           /\ fs' = Gc([fs EXCEPT ![new] = kept], d2, mbox, ld, r2)
                  ELSE /\ disk' = disk
                       /\ fs' = Gc(fs, disk, mbox, ld, r2)
        /\ hist' = [hist EXCEPT !.rw[w].temp_done = TRUE]
        /\ UNCHANGED <<os_name, file_size_mb, mbox, sessionVars, queue, ui, ld>>

\* Lines 1587-1591: self.mbox.close(); the status event "Replacing original
\* file...".  Closing a mailbox nothing was added to or removed from writes
\* nothing; an ingestion worker that iterates this mailbox finds its file
\* closed at its next read.
RwCloseOrig(w) ==
  /\ rw[w].pc = "close_orig"
  /\ \/ RwOuterExcept(w)
     \/ /\ mbox.ino # 0
        /\ CanPut(1)
        /\ mbox' = [mbox EXCEPT !.open = FALSE]
        /\ ld' = IF mbox.by \in DOMAIN ld /\ ld[mbox.by].pc \in {"start", "loop", "finish"}
                 THEN [ld EXCEPT ![mbox.by].closed = TRUE] ELSE ld
        /\ rw' = [rw EXCEPT ![w].pc = "replace"]
        /\ fs' = Gc(fs, disk, mbox', ld, rw')
        /\ queue' = Append(queue, Ev("status", "replacing"))
        /\ UNCHANGED <<os_name, file_size_mb, disk, sessionVars, ui, hist>>

\* Lines 1594-1596: on Windows the original is removed before the rename.
RwRemoveOrig(w) ==
  /\ rw[w].pc = "replace"
  /\ os_name = "nt" /\ disk["orig"] # 0
  /\ \/ RwInnerExcept(w, disk)
     \/ /\ disk' = [disk EXCEPT !["orig"] = 0]
        /\ rw' = [rw EXCEPT ![w].pc = "rename"]
        /\ fs' = Gc(fs, disk', mbox, ld, rw')
        /\ hist' = [hist EXCEPT !.rw[w].touched = TRUE]
        /\ UNCHANGED <<os_name, file_size_mb, mbox, sessionVars, queue, ui, ld>>

\* Line 1598: os.rename(temp_file_path, file_path).  It fails when the
\* temporary path names no file and, on Windows, when the target exists.
RwRename(w) ==
  /\ \/ rw[w].pc = "rename"
     \/ rw[w].pc = "replace" /\ ~(os_name = "nt" /\ disk["orig"] # 0)
  /\ \/ RwInnerExcept(w, disk)
     \/ /\ disk["temp"] # 0
        /\ os_name = "nt" => disk["orig"] = 0
        /\ disk' = [disk EXCEPT !["orig"] = disk["temp"], !["temp"] = 0]
        /\ rw' = [rw EXCEPT ![w].pc = "reopen"]
        /\ fs' = Gc(fs, disk', mbox, ld, rw')
        /\ hist' = [hist EXCEPT !.rw[w].touched = TRUE]
        /\ UNCHANGED <<os_name, file_size_mb, mbox, sessionVars, queue, ui, ld>>

\* Lines 1600-1609: self.mbox = mailbox.mbox(file_path) and the two events
\* that report the success.
RwReopen(w) ==
  /\ rw[w].pc = "reopen"
  /\ \/ RwInnerExcept(w, disk)
     \/ /\ disk["orig"] # 0
        /\ CanPut(2)
        /\ mbox' = [ino |-> disk["orig"], open |-> TRUE, toc |-> -1, by |-> 0]
        /\ rw' = [rw EXCEPT ![w].pc = "update"]
        /\ fs' = Gc(fs, disk, mbox', ld, rw')
        /\ queue' = queue \o <<Ev("status", "modified"),
                               Ev("success", "modified")>>
        /\ UNCHANGED <<os_name, file_size_mb, disk, sessionVars, ui, ld, hist>>

\* Lines 1611-1613: self.emails = self.filtered_emails.copy().
RwUpdateEmails(w) ==
  /\ rw[w].pc = "update"
  /\ emails' = filtered_emails
  /\ rw' = [rw EXCEPT ![w].pc = "done"]
  /\ hist' = [hist EXCEPT !.rw[w].outcome = "ok"]
  /\ UNCHANGED <<os_name, file_size_mb, disk, fs, mbox, filtered_emails, emails_loaded,
                 total_emails, loading_cancelled, email_id_tracker,
                 selected_email_indices, current_page, total_pages, queue, ui, ld>>

modify_original_mbox(w) ==
  \/ RwOpenTemp(w)
  \/ RwAdd(w)
  \/ RwFlushClose(w)
  \/ RwCloseOrig(w)
  \/ RwRemoveOrig(w)
  \/ RwRename(w)
  \/ RwReopen(w)
  \/ RwUpdateEmails(w)

\* ------------------------------------------------------------ consumer side

\* len(self.mbox): the number of keys of the mailbox, read from the file the
\* first time it is asked for.
MboxLen(mb) == IF mb.toc >= 0 THEN mb.toc ELSE Len(fs[mb.ino])

\* len() of a mailbox that was closed before its keys were read raises, and
\* the handler ends there.
MboxUnreadable ==
  filtered_emails # <<>> /\ mbox.ino # 0 /\ mbox.toc < 0 /\ ~mbox.open

\* "not self.filtered_emails or not self.mbox" (lines 1322, 1437): a mailbox
\* object is false when it holds no message.
NothingToExport ==
  \/ filtered_emails = <<>>
  \/ mbox.ino = 0
  \/ MboxLen(mbox) = 0

\* The outcomes of the backup copy, lines 1477-1505: the source cannot be
\* opened, the destination cannot be opened, the copy fails after k buffers
\* (a buffer is one record here), or it succeeds.
BackupOutcomes(n) ==
  {<<"open_src">>, <<"open_dst">>, <<"ok">>} \cup {<<"copy", k>> : k \in 0..n}

\* Whether the destination was opened for writing.
BackupOpened(outcome) == outcome[1] \in {"copy", "ok"}

\* What the backup copy leaves at the backup path.
BackupWritten(outcome, src) ==
  IF outcome[1] = "ok" THEN src
  ELSE IF outcome[1] = "copy" THEN SubSeq(src, 1, outcome[2])
  ELSE <<>>

BackupFails(outcome) == outcome[1] # "ok"

\* Lines 1477-1505, the files after the copy: opening the destination for
\* writing creates it or empties it, then the buffers are written.
BackupDisk(outcome, backup_path) ==
  IF ~BackupOpened(outcome) THEN disk
  ELSE [disk EXCEPT ![backup_path] =
          IF disk[backup_path] # 0 THEN disk[backup_path] ELSE InoBackup]

BackupFs(outcome, backup_path) ==
  IF ~BackupOpened(outcome) THEN fs
  ELSE [fs EXCEPT ![BackupDisk(outcome, backup_path)[backup_path]] =
          BackupWritten(outcome, fs[disk["orig"]])]

\* The source cannot be opened when the path names no file.
BackupPossible(outcome, backup_path) ==
  outcome[1] # "open_src" => disk["orig"] # 0

\* Lines 1507-1515: the rewrite worker is started on the original's path.
StartModifyThread(requested, complete) ==
  /\ \E w \in RWorkers : rw[w].pc = "idle"
  /\ LET w == CHOOSE v \in RWorkers :
                rw[v].pc = "idle" /\ \A u \in RWorkers : u < v => rw[u].pc # "idle"
     IN  /\ rw' = [rw EXCEPT ![w].pc = "start"]
         /\ hist' = [hist EXCEPT !.export_calls = @ + 1,
                                 !.rw[w] =
                       [IdleRwHist EXCEPT !.backup_requested = requested,
                                          !.backup_complete = complete,
                                          !.orig0 = FileAt(disk, fs, "orig"),
                                          !.view0 = filtered_emails]]
  /\ ui' = ui

\* Lines 1437-1439 and 1453-1454: nothing to export, or the user does not
\* confirm.
ExportNotStarted ==
  /\ hist' = [hist EXCEPT !.export_calls = @ + 1]
  /\ UNCHANGED <<disk, fs, rw, ui>>

\* The copy raises and the rewrite is started all the same (the handler
\* without the return of line 1505).
ExportBackupFailedNoReturn(backup_path, outcome) ==
  /\ BackupFails(outcome)
  /\ BackupPossible(outcome, backup_path)
  /\ disk' = BackupDisk(outcome, backup_path)
  /\ fs' = BackupFs(outcome, backup_path)
  /\ StartModifyThread(TRUE, FALSE)

\* Lines 1463-1505 when the copy raises: the error is shown and the handler
\* returns.
ExportBackupFailed(backup_path, outcome) ==
  /\ BackupFails(outcome)
  /\ BackupPossible(outcome, backup_path)
  /\ disk' = BackupDisk(outcome, backup_path)
  /\ fs' = BackupFs(outcome, backup_path)
  /\ ui' = ui
  /\ hist' = [hist EXCEPT !.export_calls = @ + 1]
  /\ UNCHANGED rw

\* Lines 1463-1515 when the copy succeeds.
ExportBackupDone(backup_path) ==
  /\ BackupPossible(<<"ok">>, backup_path)
  /\ disk' = BackupDisk(<<"ok">>, backup_path)
  /\ fs' = BackupFs(<<"ok">>, backup_path)
  /\ StartModifyThread(TRUE, TRUE)

\* Lines 1456-1471 and 1507-1515 when no backup is made: the user declines
\* the backup, or asks for it and dismisses the save dialog.
ExportWithoutBackup(backup_result) ==
  /\ StartModifyThread(backup_result, FALSE)
  /\ UNCHANGED <<disk, fs>>

\* export_remaining, lines 1435-1515, reached from export_or_save_dialog
\* (lines 1320-1342) with the answer "modify the original".  result is the
\* answer to the confirmation, backup_result the answer to the backup offer,
\* backup_path the path chosen in the save dialog ("" when it is dismissed).
export_remaining ==
  /\ ui.export_button = "normal"
  /\ hist.export_calls < MaxExportCalls
  /\ UNCHANGED <<os_name, file_size_mb, mbox, sessionVars, queue, ld>>
  /\ IF MboxUnreadable \/ NothingToExport
     THEN ExportNotStarted
     ELSE \E result \in BOOLEAN :
            IF ~result THEN ExportNotStarted
            ELSE \E backup_result \in BOOLEAN, backup_path \in {"", "backup"} :
                   IF backup_result /\ backup_path # ""
                   THEN \/ \E outcome \in BackupOutcomes(Len(FileAt(disk, fs, "orig").data)) :
                             ExportBackupFailed(backup_path, outcome)
                        \/ ExportBackupDone(backup_path)
                   ELSE ExportWithoutBackup(backup_result)

\* The events whose handling opens a message box (lines 862, 868, 872): the
\* loop of check_queue waits there until the box is closed.
ModalEvents == {"preview_emails", "error", "success"}

\* check_queue, lines 842-873, on one event: what it does to the view (a copy
\* of self.emails, a new list) and to the buttons.  The texts it shows (progress bar, status label, message
\* boxes) are not part of the state.
HandleEvent(e, S) ==
  [filtered_emails |->
     IF e.tag \in {"display_emails", "preview_emails"} THEN emails
     ELSE S.filtered_emails,
   ui |->
     CASE e.tag = "display_emails" ->
            [S.ui EXCEPT !.remove_button = "normal", !.export_button = "normal"]
       [] e.tag = "preview_emails" -> [S.ui EXCEPT !.remove_button = "normal"]
       [] e.tag = "cancel_button_state" -> [S.ui EXCEPT !.cancel_button = e.data]
       [] OTHER -> S.ui,
   queue |-> S.queue,
   rebound |-> S.rebound \/ e.tag \in {"display_emails", "preview_emails"}]

\* The loop of check_queue, lines 841-876: events are taken in order until the
\* queue is empty or a message box is shown.
RECURSIVE Drain(_, _)
Drain(q, S) ==
  IF q = <<>> THEN [S EXCEPT !.queue = <<>>]
  ELSE LET S1 == HandleEvent(Head(q), S)
       IN  IF Head(q).tag \in ModalEvents THEN [S1 EXCEPT !.queue = Tail(q)]
           ELSE Drain(Tail(q), S1)

\* check_queue, lines 839-879, when the queue holds an event.
check_queue ==
  /\ queue # <<>>
  /\ LET S == Drain(queue, [filtered_emails |-> filtered_emails, ui |-> ui,
                            queue |-> queue, rebound |-> FALSE])
     IN  /\ queue' = S.queue
         /\ filtered_emails' = S.filtered_emails
         /\ ui' = S.ui
         /\ rw' = IF S.rebound THEN Rebound(rw) ELSE rw
  /\ UNCHANGED <<os_name, file_size_mb, disk, fs, mbox, emails, emails_loaded,
                 total_emails, loading_cancelled, email_id_tracker,
                 selected_email_indices, current_page, total_pages, ld, hist>>

\* ------------------------------------------------------------ ingestion worker

\* An ingestion worker; closed: the mailbox it iterates was closed under it.
IdleLd ==
  [pc |-> "idle", ino |-> 0, sampling_rate |-> 1, i |-> 0, email_count |-> 0,
   current_chunk |-> <<>>, last_progress_update |-> 0, closed |-> FALSE]

\* What the run remembers of an ingestion: the positions whose record the
\* worker appended to its chunk, the number of records it had read when
\* cancel_loading was called (-1: never), the count of its cancellation
\* notification (-1: none), whether it put an event after that notification, whether
\* it reported a completed load or a failure, len(self.emails) after its
\* final flush (-1: not reached), self.emails_loaded and the identities
\* of self.emails, in order, at that point, and whether it put the preview
\* event.
IdleLdHist ==
  [stored |-> {}, cancel_at |-> -1, cancel_reported |-> -1, after_cancel |-> FALSE,
   completed_reported |-> FALSE, failed_reported |-> FALSE, flushed |-> -1,
   loaded |-> -1, ids |-> <<>>, previewed |-> FALSE]

\* The ingestion workers whose thread is running.
ActiveLd(l) == {w \in LWorkers : l[w].pc \in {"start", "loop", "finish"}}

\* The events a worker puts once it has reported the cancellation.
AfterCancel(h, n) ==
  IF h.cancel_reported >= 0 /\ n > 0 THEN [h EXCEPT !.after_cancel = TRUE] ELSE h

\* Lines 491 and 494-495: a file above 1000 MB is not counted; its total is
\* estimated at 10 records per MB.
IsLarge == file_size_mb > LARGE_FILE_MB
EstimatedEmails == file_size_mb * ESTIMATE_PER_MB

\* load_mbox, lines 563-591, on a record whose extraction succeeded: the
\* duplicate check, the append to the chunk, the early preview and the flush of
\* a full chunk.  S holds self.emails, current_chunk, self.emails_loaded and
\* self.email_id_tracker; the result also says whether the record was appended
\* and whether the preview event is put.
StoreRecord(S, e) ==
  IF e.message_id \in S.tracker
  THEN [S EXCEPT !.preview = FALSE, !.appended = FALSE]
  ELSE LET chunk1  == Append(S.chunk, e)
           loaded1 == S.loaded + 1
           preview == loaded1 = PREVIEW_AT /\ Len(S.emails) = 0
           emails1 == IF preview THEN S.emails \o chunk1 ELSE S.emails
           full    == Len(chunk1) >= chunk_size
       IN  [emails   |-> IF full THEN emails1 \o chunk1 ELSE emails1,
            chunk    |-> IF full THEN <<>> ELSE chunk1,
            loaded   |-> loaded1,
            tracker  |-> S.tracker \cup {e.message_id},
            preview  |-> preview,
            appended |-> TRUE]

\* The extraction with the failure not caught per record: the record is counted
\* and stored like any other.
ProcessRecordNoTry(S, w, pos, r) ==
  StoreRecord(S, ExtractEmailData(w, pos, r))

\* Lines 563-579: extraction of one record; a record extract_email_data
\* raises on is logged and skipped.
ProcessRecord(S, w, pos, r) ==
  IF r.bad THEN [S EXCEPT !.preview = FALSE, !.appended = FALSE]
  ELSE StoreRecord(S, ExtractEmailData(w, pos, r))

\* Lines 663-665: the records left in the last chunk are added.
FinalFlush(S) == [S EXCEPT !.emails = S.emails \o S.chunk, !.chunk = <<>>]

EmptySession ==
  [emails |-> <<>>, chunk |-> <<>>, loaded |-> 0, tracker |-> {},
   preview |-> FALSE, appended |-> FALSE]

\* A whole ingestion of archive a by worker w with sampling rate 1, nothing
\* else running: the loop over every record, then the final flush.
RECURSIVE LoadFrom(_, _, _, _)
LoadFrom(S, w, a, pos) ==
  IF pos > Len(a) THEN FinalFlush(S)
  ELSE LoadFrom(ProcessRecord(S, w, pos, a[pos]), w, a, pos + 1)

LoadAll(w, a) == LoadFrom(EmptySession, w, a, 1)

\* total_pages as load_mbox, apply_filters and remove_selected compute it.
Pages(n) == Max(1, (n + emails_per_page - 1) \div emails_per_page)

\* The except clause without its last line: the error is put, the state of
\* the cancel button is not.
LoadFailNoDisable(w) ==
  /\ CanPut(1)
  /\ ld' = [ld EXCEPT ![w].pc = "done", ![w].ino = 0, ![w].current_chunk = <<>>]
  /\ queue' = Append(queue, Ev("error", "loading"))
  /\ hist' = [hist EXCEPT !.ld[w] =
                [AfterCancel(@, 1) EXCEPT !.failed_reported = TRUE]]
  /\ UNCHANGED <<os_name, file_size_mb, disk, fs, mbox, sessionVars, ui, rw>>

\* The except clause of load_mbox, lines 698-703: the error and the state of
\* the cancel button are put on the queue; the chunk is dropped.
LoadFail(w) ==
  /\ CanPut(2)
  /\ ld' = [ld EXCEPT ![w].pc = "done", ![w].ino = 0, ![w].current_chunk = <<>>]
  /\ queue' = queue \o <<Ev("error", "loading"), Ev("cancel_button_state", "disabled")>>
  /\ hist' = [hist EXCEPT !.ld[w] =
                [AfterCancel(@, 2) EXCEPT !.failed_reported = TRUE]]
  /\ UNCHANGED <<os_name, file_size_mb, disk, fs, mbox, sessionVars, ui, rw>>

\* The status events of lines 478, 496 and 501-511: "Analyzing file...", then
\* "Estimated ..." for a large file, else "Counting emails..." and the count
\* or the estimate that replaces it.
StartEvents ==
  IF IsLarge THEN <<Ev("status", "text"), Ev("status", "text")>>
  ELSE <<Ev("status", "text"), Ev("status", "text"), Ev("status", "text")>>

\* Lines 475-538, up to the loop: the status events; self.total_emails,
\* estimated for a large file and else counted from a mailbox opened for it
\* (estimated too when the count fails); self.mbox = mailbox.mbox(file_path),
\* self.emails = [], self.emails_loaded = 0 and the worker's own counters.
LoadStart(w) ==
  /\ ld[w].pc = "start"
  /\ \/ LoadFail(w)
     \/ /\ disk["orig"] # 0
        /\ CanPut(Len(StartEvents))
        /\ ld' = [ld EXCEPT ![w].pc = "loop", ![w].ino = disk["orig"], ![w].i = 0,
                            ![w].email_count = 0, ![w].current_chunk = <<>>,
                            ![w].last_progress_update = 0]
        /\ queue' = queue \o StartEvents
        /\ \E counted \in BOOLEAN :
             /\ counted => ~IsLarge
             /\ total_emails' =
                  IF counted THEN Len(fs[disk["orig"]]) ELSE EstimatedEmails
        /\ mbox' = [ino |-> disk["orig"], open |-> TRUE, toc |-> -1, by |-> w]
        /\ emails' = <<>>
        /\ emails_loaded' = 0
        /\ hist' = [hist EXCEPT !.ld[w] = AfterCancel(@, Len(StartEvents))]
        /\ UNCHANGED <<os_name, file_size_mb, disk, fs, filtered_emails,
                       loading_cancelled, email_id_tracker, selected_email_indices,
                       current_page, total_pages, ui, rw>>

\* Lines 543-547: the record was read, the flag is set: the notification is
\* put and the loop is left.
LoadCancelled(w) ==
  /\ CanPut(1)
  /\ ld' = [ld EXCEPT ![w].pc = "finish", ![w].i = @ + 1]
  /\ queue' = Append(queue, Ev("status", <<"cancelled_after", emails_loaded>>))
  /\ hist' = [hist EXCEPT !.ld[w].cancel_reported = emails_loaded]
  /\ UNCHANGED <<os_name, file_size_mb, disk, fs, mbox, sessionVars, ui, rw>>

\* Lines 621-638: the progress value, from the position in the file when the
\* file is large, else from the loaded count.
ProgressValue(pos, len, loaded, rate, total) ==
  IF IsLarge THEN Percent(pos, len) ELSE Percent(loaded * rate, total)

\* Lines 553-561: whether the record counted as number count is passed over:
\* by the test of its number against the sampling rate, then, for a total
\* above 1,000,000 and a rate above 100, by the draw of random.random()
\* (accept: the draw is not above 1 / rate).
Skipped(rate, count, total, accept) ==
  \/ rate > 1 /\ count % rate # 0
  \/ /\ total > RANDOM_TOTAL_MIN
     /\ rate > RANDOM_RATE_MIN
     /\ ~accept

\* Lines 549-661, one turn of the loop on record r when the flag is not set:
\* sampling (accept is the draw of random.random()), extraction and duplicate
\* check, preview, flush of a full chunk, and the progress and status events
\* when half a second has passed (tick).  A turn that ends in 'continue' puts
\* none.
LoadTurn(w, r, accept, tick) ==
  LET L       == ld[w]
      pos     == L.i + 1
      count1  == L.email_count + 1
      skipped == Skipped(L.sampling_rate, count1, total_emails, accept)
      S0      == [emails |-> emails, chunk |-> L.current_chunk,
                  loaded |-> emails_loaded, tracker |-> email_id_tracker,
                  preview |-> FALSE, appended |-> FALSE]
      S1      == IF skipped THEN S0 ELSE ProcessRecord(S0, w, pos, r)
      value   == ProgressValue(pos, Len(fs[L.ino]), S1.loaded, L.sampling_rate,
                               total_emails)
      timed   == S1.appended /\ tick
      changed == timed /\ value # L.last_progress_update
      evs     == (IF S1.preview THEN <<Ev("preview_emails", "none")>> ELSE <<>>)
                 \o (IF changed THEN <<Ev("progress", value)>> ELSE <<>>)
                 \o (IF timed THEN <<Ev("status", "text")>> ELSE <<>>)
  IN  /\ CanPut(Len(evs))
      /\ ld' = [ld EXCEPT ![w].i = pos, ![w].email_count = count1,
                          ![w].current_chunk = S1.chunk,
                          ![w].last_progress_update = IF changed THEN value ELSE @]
      /\ queue' = queue \o evs
      /\ emails' = S1.emails
      /\ emails_loaded' = S1.loaded
      /\ email_id_tracker' = S1.tracker
      /\ hist' = [hist EXCEPT !.ld[w] =
                    [AfterCancel(@, Len(evs)) EXCEPT
                       !.stored = IF S1.appended THEN @ \cup {pos} ELSE @,
                       !.previewed = @ \/ S1.preview]]
      /\ UNCHANGED <<os_name, file_size_mb, disk, fs, mbox, filtered_emails,
                     total_emails, loading_cancelled, selected_email_indices,
                     current_page, total_pages, ui, rw>>

\* Line 542 and the body of the loop: the iterator reads the next record of
\* the worker's mailbox (the keys first, before the first record), then the
\* flag is looked at.  A read from a closed file raises.
LoadRecord(w) ==
  /\ ld[w].pc = "loop"
  /\ ld[w].i < Len(fs[ld[w].ino]) \/ (ld[w].closed /\ ld[w].i = 0)
  /\ \/ LoadFail(w)
     \/ /\ loading_cancelled
        /\ ~ld[w].closed
        /\ LoadCancelled(w)
     \/ /\ ~loading_cancelled
        /\ ~ld[w].closed
        /\ \E accept \in BOOLEAN, tick \in BOOLEAN :
             LoadTurn(w, fs[ld[w].ino][ld[w].i + 1], accept, tick)

\* Lines 663-696, after the loop (ended or left by break): the final flush,
\* the pagination fields, and the events display_emails, "Loaded N emails" and
\* the state of the cancel button.
LoadFinish(w) ==
  /\ \/ ld[w].pc = "finish"
     \/ /\ ld[w].pc = "loop"
        /\ ld[w].i >= Len(fs[ld[w].ino])
        /\ ~(ld[w].closed /\ ld[w].i = 0)
  /\ CanPut(3)
  /\ ld' = [ld EXCEPT ![w].pc = "done", ![w].ino = 0, ![w].current_chunk = <<>>]
  /\ LET S == FinalFlush([emails |-> emails, chunk |-> ld[w].current_chunk])
     IN  /\ emails' = S.emails
         /\ current_page' = 0
         /\ total_pages' = Pages(Len(S.emails))
         /\ hist' = [hist EXCEPT !.ld[w] =
                       [AfterCancel(@, 3) EXCEPT
                          !.completed_reported = TRUE,
                          !.flushed = Len(S.emails),
                          !.loaded = emails_loaded,
                          !.ids = [k \in DOMAIN S.emails |-> S.emails[k].message_id]]]
  /\ queue' = queue \o <<Ev("display_emails", "none"),
                         Ev("status", <<"loaded", emails_loaded>>),
                         Ev("cancel_button_state", "disabled")>>
  /\ UNCHANGED <<os_name, file_size_mb, disk, fs, mbox, filtered_emails,
                 emails_loaded, total_emails, loading_cancelled, email_id_tracker,
                 selected_email_indices, ui, rw>>

load_mbox(w) ==
  \/ LoadStart(w)
  \/ LoadRecord(w)
  \/ LoadFinish(w)

\* browse_file, lines 385-459, with a file chosen in the dialog: the sampling
\* rate is asked for when the file is large (1: regular mode), the session is
\* reset, the cancel button enabled and a thread started on load_mbox.
browse_file ==
  /\ \E w \in LWorkers : ld[w].pc = "idle"
  /\ disk["orig"] # 0
  /\ \E sampling_rate \in (IF IsLarge THEN 1..MaxRate ELSE {1}) :
       LET w == CHOOSE v \in LWorkers :
                  ld[v].pc = "idle" /\ \A u \in LWorkers : u < v => ld[u].pc # "idle"
       IN  ld' = [ld EXCEPT ![w] = [IdleLd EXCEPT !.pc = "start",
                                                  !.sampling_rate = sampling_rate]]
  /\ loading_cancelled' = FALSE
  /\ emails_loaded' = 0
  /\ emails' = <<>>
  /\ filtered_emails' = <<>>
  /\ email_id_tracker' = {}
  /\ selected_email_indices' = {}
  /\ ui' = [ui EXCEPT !.cancel_button = "normal"]
  /\ rw' = Rebound(rw)
  /\ UNCHANGED <<os_name, file_size_mb, disk, fs, mbox, total_emails, current_page,
                 total_pages, queue, hist>>

\* cancel_loading, lines 461-465.
cancel_loading ==
  /\ ui.cancel_button = "normal"
  /\ loading_cancelled' = TRUE
  /\ hist' = [hist EXCEPT !.ld =
                [w \in LWorkers |->
                   IF w \in ActiveLd(ld) /\ hist.ld[w].cancel_at < 0
                   THEN [hist.ld[w] EXCEPT !.cancel_at = ld[w].i]
                   ELSE hist.ld[w]]]
  /\ UNCHANGED <<os_name, file_size_mb, disk, fs, mbox, emails, filtered_emails,
                 emails_loaded, total_emails, email_id_tracker,
                 selected_email_indices, current_page, total_pages, queue, ui, ld, rw>>

\* ------------------------------------------------------------ filters

\* Texts are sequences of characters.  str.lower() on the letters of the
\* model.
LowerChar(c) ==
  CASE c = "I" -> "i"
    [] c = "R" -> "r"
    [] OTHER -> c

Lower(s) == [k \in DOMAIN s |-> LowerChar(s[k])]

\* "sub in s" of two strings.
Contains(sub, s) ==
  \E k \in 0..(Len(s) - Len(sub)) : SubSeq(s, k + 1, k + Len(sub)) = sub

\* s.split(','): the pieces between the commas, the empty ones included.
RECURSIVE Split(_)
Split(s) ==
  IF \A k \in DOMAIN s : s[k] # "," THEN <<s>>
  ELSE LET c == CHOOSE k \in DOMAIN s : s[k] = "," /\ \A j \in 1..(k - 1) : s[j] # ","
       IN  <<SubSeq(s, 1, c - 1)>> \o Split(SubSeq(s, c + 1, Len(s)))

\* s.strip() (the blank is the only white space of the model).
RECURSIVE Strip(_)
Strip(s) ==
  IF s = <<>> THEN s
  ELSE IF Head(s) = " " THEN Strip(Tail(s))
  ELSE IF s[Len(s)] = " " THEN Strip(SubSeq(s, 1, Len(s) - 1))
  ELSE s

\* Line 1150: [word.strip() for word in content_filter.split(',') if
\* word.strip()].
ContentWords(content_filter) ==
  LET pieces == Split(content_filter)
      words  == [k \in DOMAIN pieces |-> Strip(pieces[k])]
      Word(x) == x # <<>>
  IN  SelectSeq(words, Word)

\* message.get(name, ''): a header the raw record does not carry is ''.
Header(r, name) == IF name \in DOMAIN r THEN r[name] ELSE <<>>

\* The Date header: the day it names (0: absent or not a date) and its zone
\* ("": none given, else a numeric offset).
NoDateHeader == [day |-> 0, zone |-> ""]
DateHeader(r) == IF "date" \in DOMAIN r THEN r.date ELSE NoDateHeader

\* extract_email_data, lines 717-722: email.utils.parsedate_to_datetime gives
\* a datetime that is aware of its zone when the header names one, a naive one
\* when it names none, and date_obj stays None (day 0) when it raises.
NoDate == [day |-> 0, aware |-> FALSE]
DateObj(r) ==
  LET h == DateHeader(r)
  IN  IF h.day = 0 THEN NoDate ELSE [day |-> h.day, aware |-> h.zone # ""]

\* The entries and mode boxes of the filter frame (lines 84-87, 118-178).
NoFilters ==
  [subject |-> <<>>, subject_mode |-> "contains",
   from |-> <<>>, from_mode |-> "contains",
   to |-> <<>>, to_mode |-> "contains",
   content |-> <<>>, content_mode |-> "contains",
   date |-> <<>>]

\* The entries with the content clause filled only.
OneFilter(content, mode) ==
  [NoFilters EXCEPT !.content = content, !.content_mode = mode]

\* Lines 1139-1145: datetime.strptime(date_filter, '%Y-%m-%d'), None (0) when
\* the entry is empty or strptime raises.  A date is written as the digit of
\* its day.
StrptimeDay(s) ==
  IF Len(s) = 1 /\ s[1] \in {"1", "2", "3", "4"}
  THEN (CHOOSE d \in 1..4 : <<"1", "2", "3", "4">>[d] = s[1])
  ELSE 0

\* The clause without its test of the "does not contain" mode.
TextClauseSkipsContainsOnly(filter_lower, mode, field) ==
  /\ filter_lower # <<>>
  /\ mode = "contains"
  /\ ~Contains(filter_lower, Lower(field))

\* Lines 1170-1186, one of the subject, from and to clauses: whether the
\* record is skipped.
TextClauseSkips(filter_lower, mode, field) ==
  /\ filter_lower # <<>>
  /\ LET contains == Contains(filter_lower, Lower(field))
     IN  \/ mode = "contains" /\ ~contains
         \/ mode = "does not contain" /\ contains

\* Lines 1194-1203, the content clause.
ContentClauseSkips(content_filter, content_words, mode, body) ==
  /\ content_filter # <<>>
  /\ content_words # <<>>
  /\ LET body_lower == Lower(body)
         In(k) == Contains(content_words[k], body_lower)
     IN  IF mode = "contains"
         THEN ~(\A k \in DOMAIN content_words : In(k))
         ELSE \E k \in DOMAIN content_words : In(k)

\* Lines 1167-1206, the body of the loop on one record: "skip" (continue),
\* "keep" (append), or "raise": comparing the naive datetime of the filter
\* with an aware date_obj raises TypeError.
FilterRecord(e, f) ==
  LET date_obj == StrptimeDay(f.date)
      rec_date == DateObj(e.raw)
  IN  IF TextClauseSkips(Lower(f.subject), f.subject_mode, Header(e.raw, "subject"))
        THEN "skip"
      ELSE IF TextClauseSkips(Lower(f.from), f.from_mode, Header(e.raw, "from"))
        THEN "skip"
      ELSE IF TextClauseSkips(Lower(f.to), f.to_mode, Header(e.raw, "to"))
        THEN "skip"
      ELSE IF date_obj # 0 /\ rec_date.day # 0 /\ rec_date.aware
        THEN "raise"
      ELSE IF date_obj # 0 /\ rec_date.day # 0 /\ rec_date.day < date_obj
        THEN "skip"
      ELSE IF ContentClauseSkips(Lower(f.content), ContentWords(Lower(f.content)),
                                 f.content_mode, e.body)
        THEN "skip"
      ELSE "keep"

\* The loop of lines 1167-1206 over es from position k on, out being
\* self.filtered_emails so far: the list it leaves and whether it raised.
RECURSIVE FilterLoop(_, _, _, _)
FilterLoop(es, f, k, out) ==
  IF k > Len(es) THEN [list |-> out, raised |-> FALSE]
  ELSE LET o == FilterRecord(es[k], f)
       IN  IF o = "raise" THEN [list |-> out, raised |-> TRUE]
           ELSE FilterLoop(es, f, k + 1, IF o = "keep" THEN Append(out, es[k]) ELSE out)

\* apply_filters, lines 1121-1219, with f in the entries of the filter frame:
\* nothing without loaded records; else the view is a new list filled by the
\* loop and the selection is cleared, and when the loop did not raise the
\* first page is shown.
apply_filters(f) ==
  /\ hist.filterings < MaxFilterings
  /\ hist' = [hist EXCEPT !.filterings = @ + 1]
  /\ ui' = [ui EXCEPT !.filters = f]
  /\ IF emails = <<>>
     THEN UNCHANGED <<filtered_emails, selected_email_indices, current_page,
                      total_pages, rw>>
     ELSE LET R == FilterLoop(emails, f, 1, <<>>)
          IN  /\ filtered_emails' = R.list
              /\ selected_email_indices' = {}
              /\ rw' = Rebound(rw)
              /\ IF R.raised
                 THEN UNCHANGED <<current_page, total_pages>>
                 ELSE /\ current_page' = 0
                      /\ total_pages' = Pages(Len(R.list))
  /\ UNCHANGED <<os_name, file_size_mb, disk, fs, mbox, emails, emails_loaded,
                 total_emails, loading_cancelled, email_id_tracker, queue, ld>>

\* clear_filters, lines 1221-1247: the entries are emptied and the modes set
\* to "contains"; with loaded records the view is a copy of self.emails and
\* the first page is shown.  The selection is left as it is.
clear_filters ==
  /\ hist.filterings < MaxFilterings
  /\ hist' = [hist EXCEPT !.filterings = @ + 1]
  /\ ui' = [ui EXCEPT !.filters = NoFilters]
  /\ IF emails = <<>>
     THEN UNCHANGED <<filtered_emails, current_page, total_pages, rw>>
     ELSE /\ filtered_emails' = emails
          /\ current_page' = 0
          /\ total_pages' = Pages(Len(emails))
          /\ rw' = Rebound(rw)
  /\ UNCHANGED <<os_name, file_size_mb, disk, fs, mbox, emails, emails_loaded,
                 total_emails, loading_cancelled, email_id_tracker,
                 selected_email_indices, queue, ld>>

\* ------------------------------------------------------------ the rewrite alone

\* Archives of the rewrite runs: their length, and the length of the view
\* that is kept.
MaxRewriteRecords == 2

MaxKept == 2

RewriteArchives ==
  {a \in Archives :
     /\ Len(a) \in 1..MaxRewriteRecords
     /\ \A k \in 1..Len(a) : ~a[k].bad /\ a[k].body = 1 /\ a[k].mid = 2 - k}

\* The views apply_filters can leave: the records whose identity is in K.
ViewOf(es, K) ==
  LET Keep(e) == e.message_id \in K
  IN  SelectSeq(es, Keep)

InitHist ==
  [rw |-> [w \in RWorkers |-> IdleRwHist],
   ld |-> [w \in LWorkers |-> IdleLdHist],
   export_calls |-> 0,
   filterings |-> 0,
   removals |-> 0,
   selections |-> 0]

\* The session after browse_file loaded archive a completely (sampling rate
\* 1), the consumer took every event and applied some filter.
InitRewrite ==
  \E a \in RewriteArchives :
    LET L == LoadAll(1, a)
    IN  /\ os_name \in {"nt", "posix"}
        /\ file_size_mb = 1
        /\ disk = [p \in Paths |-> IF p = "orig" THEN InoOrig ELSE 0]
        /\ fs = [i \in Inodes |-> IF i = InoOrig THEN a ELSE <<>>]
        /\ mbox = [ino |-> InoOrig, open |-> TRUE, toc |-> Len(a), by |-> 1]
        /\ emails = L.emails
        /\ emails_loaded = L.loaded
        /\ email_id_tracker = L.tracker
        /\ total_emails = Len(a)
        /\ loading_cancelled = FALSE
        /\ selected_email_indices = {}
        /\ current_page = 0
        /\ total_pages \in {Pages(Len(L.emails))}
        /\ filtered_emails \in
             {v \in {ViewOf(L.emails, K) : K \in SUBSET L.tracker} : Len(v) <= MaxKept}
        /\ queue = <<>>
        /\ ui = [cancel_button |-> "disabled", remove_button |-> "normal",
                 export_button |-> "normal", filters |-> NoFilters]
        /\ ld = [w \in LWorkers |-> IF w = 1 THEN [IdleLd EXCEPT !.pc = "done"] ELSE IdleLd]
        /\ rw = [w \in RWorkers |-> IdleRw]
        /\ hist = InitHist

NextRewrite ==
  \/ export_remaining
  \/ \E w \in RWorkers : modify_original_mbox(w)
  \/ check_queue

SpecRewrite == InitRewrite /\ [][NextRewrite]_vars

\* ------------------------------------------------------------ the ingestion alone

\* The good records in the order their identities are first used.
Rank(r) == IF r.mid # 0 THEN 1 ELSE r.body + 1

\* Archives up to a renaming of the identities: a record carries a new
\* identity only when the identities before it were used earlier.
IngestArchives ==
  {a \in Archives :
     /\ Len(a) >= 1
     /\ \A k \in 1..Len(a) :
          ~a[k].bad =>
            \A j \in 1..(Rank(a[k]) - 1) :
              \E m \in 1..(k - 1) : ~a[m].bad /\ Rank(a[m]) = j}

\* The size of the archive: above the size of a large file only for the
\* longest archives of distinct records.
FileSizesMb(a) ==
  IF Len(a) = MaxRecords /\ \A k \in 1..Len(a) : ~a[k].bad /\ Rank(a[k]) = k
  THEN {1, LARGE_FILE_MB + 1}
  ELSE {1}

\* The application after __init__ (lines 47-69, 103-105, 380-383), with an
\* archive on the disk.
InitIngest ==
  \E a \in IngestArchives :
    /\ os_name = "posix"
    /\ file_size_mb \in FileSizesMb(a)
    /\ disk = [p \in Paths |-> IF p = "orig" THEN InoOrig ELSE 0]
    /\ fs = [i \in Inodes |-> IF i = InoOrig THEN a ELSE <<>>]
    /\ mbox = NoHandle
    /\ emails = <<>>
    /\ filtered_emails = <<>>
    /\ emails_loaded = 0
    /\ total_emails = 0
    /\ loading_cancelled = FALSE
    /\ email_id_tracker = {}
    /\ selected_email_indices = {}
    /\ current_page = 0
    /\ total_pages = 0
    /\ queue = <<>>
    /\ ui = [cancel_button |-> "disabled", remove_button |-> "disabled",
             export_button |-> "disabled", filters |-> NoFilters]
    /\ ld = [w \in LWorkers |-> IdleLd]
    /\ rw = [w \in RWorkers |-> IdleRw]
    /\ hist = InitHist

NextIngest ==
  \/ browse_file
  \/ cancel_loading
  \/ \E w \in LWorkers : load_mbox(w)
  \/ check_queue

SpecIngest == InitIngest /\ [][NextIngest]_vars

\* ------------------------------------------------------------ selection and removal

\* update_email_list, lines 989-1008: the positions in self.filtered_emails
\* (from 0) of the rows of the current page.
PageIndices(fe, page) ==
  {k \in 0..(Len(fe) - 1) :
     page * emails_per_page <= k /\ k < page * emails_per_page + emails_per_page}

\* display_email_content, lines 1025-1039, when the user selects the row of
\* position idx: the position is added to the tracked selection.
display_email_content ==
  /\ hist.selections < MaxSelections
  /\ hist' = [hist EXCEPT !.selections = @ + 1]
  /\ \E idx \in PageIndices(filtered_emails, current_page) :
       selected_email_indices' = selected_email_indices \cup {idx}
  /\ UNCHANGED <<os_name, file_size_mb, disk, fs, mbox, emails, filtered_emails,
                 emails_loaded, total_emails, loading_cancelled, email_id_tracker,
                 current_page, total_pages, queue, ui, ld, rw>>

\* toggle_select_all, lines 911-941, the box being ticked or cleared in the
\* mode the combobox shows.
toggle_select_all ==
  /\ hist.selections < MaxSelections
  /\ hist' = [hist EXCEPT !.selections = @ + 1]
  /\ \E checked \in BOOLEAN, mode \in {"current page", "all pages"} :
       selected_email_indices' =
         IF checked
         THEN IF mode = "current page"
              THEN selected_email_indices \cup PageIndices(filtered_emails, current_page)
              ELSE 0..(Len(filtered_emails) - 1)
         ELSE IF mode = "all pages" THEN {} ELSE selected_email_indices
  /\ UNCHANGED <<os_name, file_size_mb, disk, fs, mbox, emails, filtered_emails,
                 emails_loaded, total_emails, loading_cancelled, email_id_tracker,
                 current_page, total_pages, queue, ui, ld, rw>>

\* list.remove(e): the first element equal to e is taken out.
RemoveFirst(s, e) ==
  IF \A k \in DOMAIN s : s[k] # e THEN s
  ELSE LET p == CHOOSE k \in DOMAIN s : s[k] = e /\ \A j \in 1..(k - 1) : s[j] # e
       IN  SubSeq(s, 1, p - 1) \o SubSeq(s, p + 1, Len(s))

\* del s[idx], idx counted from 0.
DelAt(s, idx) == SubSeq(s, 1, idx) \o SubSeq(s, idx + 2, Len(s))

\* Lines 1258-1269 and 1293-1303: the positions are taken from the highest
\* down; each that is in range is removed from self.emails (its first equal
\* element) and deleted from self.filtered_emails.
RECURSIVE RemoveLoop(_, _, _)
RemoveLoop(es, fe, idxs) ==
  IF idxs = {} THEN [emails |-> es, filtered_emails |-> fe]
  ELSE LET idx == CHOOSE k \in idxs : \A j \in idxs : j <= k
       IN  IF 0 <= idx /\ idx < Len(fe)
           THEN RemoveLoop(RemoveFirst(es, fe[idx + 1]), DelAt(fe, idx), idxs \ {idx})
           ELSE RemoveLoop(es, fe, idxs \ {idx})

\* remove_selected, lines 1249-1318.  mode is what the combobox shows,
\* selected_items the rows selected in the list of the current page.  In the
\* mode "all pages" with a tracked selection the tracked positions are
\* removed; else the selected rows are, and without any the handler returns.
RemoveSelected(mode, selected_items) ==
  /\ ui.remove_button = "normal"
  /\ hist.removals < MaxRemovals
  /\ hist' = [hist EXCEPT !.removals = @ + 1]
  /\   LET all == mode = "all pages" /\ selected_email_indices # {}
           R   == RemoveLoop(emails, filtered_emails,
                             IF all THEN selected_email_indices ELSE selected_items)
           tp  == Pages(Len(R.filtered_emails))
       IN  IF ~all /\ selected_items = {}
           THEN UNCHANGED <<emails, filtered_emails, selected_email_indices,
                            current_page, total_pages, rw>>
           ELSE /\ emails' = R.emails
                /\ filtered_emails' = R.filtered_emails
                /\ rw' = Mutated(rw, R.filtered_emails)
                /\ selected_email_indices' =
                     IF all THEN {} ELSE selected_email_indices \ selected_items
                /\ total_pages' = tp
                /\ current_page' =
                     IF current_page >= tp /\ current_page > 0 THEN tp - 1
                     ELSE current_page
  /\ UNCHANGED <<os_name, file_size_mb, disk, fs, mbox, emails_loaded, total_emails,
                 loading_cancelled, email_id_tracker, queue, ui, ld>>

remove_selected ==
  \E mode \in {"current page", "all pages"} :
    \E selected_items \in SUBSET PageIndices(filtered_emails, current_page) :
      RemoveSelected(mode, selected_items)

\* ------------------------------------------------------------ export to a new file

\* The except clause of export_to_new_file_worker, lines 1428-1433.
ExExcept(w) ==
  /\ CanPut(2)
  /\ queue' = queue \o <<Ev("error", "export"), Ev("status", "export_failed")>>
  /\ rw' = [rw EXCEPT ![w].pc = "done", ![w].ino = 0]
  /\ fs' = Gc(fs, disk, mbox, ld, rw')
  /\ hist' = [hist EXCEPT !.rw[w].outcome = "export_failed"]
  /\ UNCHANGED <<os_name, file_size_mb, disk, mbox, sessionVars, ui, ld>>

\* Lines 1381-1391: mailbox.mbox(new_file_path), clear(), total_emails =
\* len(self.filtered_emails) and the iterator of the loop over
\* self.filtered_emails.  The mailbox is created when the path names no file;
\* clear() drops every key of a file that is there and marks the mailbox for a
\* rewrite at the next flush.
ExOpenNew(w) ==
  /\ rw[w].pc = "new_start"
  /\ \/ ExExcept(w)
     \/ /\ LET ino   == IF disk["new"] # 0 THEN disk["new"] ELSE InoNew(w)
               stale == IF disk["new"] # 0 THEN Len(fs[ino]) ELSE 0
           IN  /\ disk' = [disk EXCEPT !["new"] = ino]
               /\ fs' = IF disk["new"] # 0 THEN fs ELSE [fs EXCEPT ![ino] = <<>>]
               /\ rw' = [rw EXCEPT ![w].pc = "new_write", ![w].ino = ino,
                                   ![w].toc = <<>>, ![w].pending = (stale > 0),
                                   ![w].flen = stale, ![w].i = 0,
                                   ![w].total = Len(filtered_emails),
                                   ![w].list = filtered_emails,
                                   ![w].live = TRUE]
        /\ UNCHANGED <<os_name, file_size_mb, mbox, sessionVars, queue, ui, ld, hist>>

\* Lines 1391-1410, one turn of the loop: new_mbox.add(email_data['message'])
\* and the progress and status events.
ExAdd(w) ==
  /\ rw[w].pc = "new_write"
  /\ rw[w].i < Len(rw[w].list)
  /\ \/ ExExcept(w)
     \/ \E tick \in BOOLEAN :
          LET e    == rw[w].list[rw[w].i + 1]
              ino  == rw[w].ino
              evs  == IF rw[w].i % PROGRESS_EVERY = 0 \/ tick
                      THEN <<Ev("progress", Percent(rw[w].i + 1, rw[w].total)),
                             Ev("status", "exported")>>
                      ELSE <<>>
          IN  /\ CanPut(Len(evs))
              /\ fs' = [fs EXCEPT ![ino] = Append(@, e.raw)]
              /\ rw' = [rw EXCEPT ![w].toc = Append(@, Len(fs[ino]) + 1),
                                  ![w].flen = Len(fs[ino]) + 1,
                                  ![w].i = @ + 1]
              /\ queue' = queue \o evs
              /\ UNCHANGED <<os_name, file_size_mb, disk, mbox, sessionVars, ui, ld, hist>>

\* Lines 1412-1426: new_mbox.flush(), new_mbox.close() and the events that
\* report the export.
ExFlushClose(w) ==
  /\ rw[w].pc = "new_write"
  /\ rw[w].i >= Len(rw[w].list)
  /\ \/ ExExcept(w)
     \/ /\ rw[w].pending
        /\ Len(fs[rw[w].ino]) # rw[w].flen
        /\ ExExcept(w)
     \/ /\ rw[w].pending => Len(fs[rw[w].ino]) = rw[w].flen
        /\ CanPut(3)
        /\ LET old  == rw[w].ino
               kept == [k \in 1..Len(rw[w].toc) |-> fs[old][rw[w].toc[k]]]
               r2   == [rw EXCEPT ![w].pc = "done", ![w].ino = 0,
                                  ![w].pending = FALSE]
           IN  /\ rw' = r2
               /\ IF rw[w].pending
                  THEN LET new == InoFlush(w)
                           d2  == [disk EXCEPT !["new"] = new]
                       IN  /\ disk' = d2
                           /\ fs' = Gc([fs EXCEPT ![new] = kept], d2, mbox, ld, r2)
                  ELSE /\ disk' = disk
                       /\ fs' = Gc(fs, disk, mbox, ld, r2)
        /\ queue' = queue \o <<Ev("status", "exported_all"), Ev("progress", 100),
                               Ev("success", "exported")>>
        /\ hist' = [hist EXCEPT !.rw[w].outcome = "exported"]
        /\ UNCHANGED <<os_name, file_size_mb, mbox, sessionVars, ui, ld>>

export_to_new_file_worker(w) ==
  \/ ExOpenNew(w)
  \/ ExAdd(w)
  \/ ExFlushClose(w)

\* export_to_new_file, lines 1346-1376, reached from export_or_save_dialog
\* (lines 1320-1344) with the answer "export to a new file": nothing to
\* export, or the save dialog is dismissed, or a thread is started on
\* export_to_new_file_worker with the path chosen.
export_to_new_file ==
  /\ ui.export_button = "normal"
  /\ hist.export_calls < MaxExportCalls
  /\ UNCHANGED <<os_name, file_size_mb, disk, fs, mbox, sessionVars, queue, ui, ld>>
  /\ IF MboxUnreadable \/ NothingToExport
     THEN /\ hist' = [hist EXCEPT !.export_calls = @ + 1]
          /\ rw' = rw
     ELSE \E new_file_path \in {"", "new"} :
            IF new_file_path = ""
            THEN /\ hist' = [hist EXCEPT !.export_calls = @ + 1]
                 /\ rw' = rw
            ELSE LET w == CHOOSE v \in RWorkers :
                            rw[v].pc = "idle" /\ \A u \in RWorkers : u < v => rw[u].pc # "idle"
                 IN  /\ \E v \in RWorkers : rw[v].pc = "idle"
                     /\ rw' = [rw EXCEPT ![w].pc = "new_start"]
                     /\ hist' = [hist EXCEPT !.export_calls = @ + 1,
                                             !.rw[w] =
                                   [IdleRwHist EXCEPT !.view0 = filtered_emails]]

\* ------------------------------------------------------------ the filters alone

\* Longest record list the filters are applied to.
MaxFilterRecords == 2

Modes == {"contains", "does not contain"}

\* The texts of the headers and bodies, and the Date headers: none, naive
\* dates before and at the cutoff, an aware date after it.
FieldTexts == {<<"I", "r">>, <<"R">>}

DateHeaders ==
  {NoDateHeader, [day |-> 1, zone |-> ""], [day |-> 2, zone |-> ""],
   [day |-> 3, zone |-> "+0000"]}

\* The raw record at position k of an archive, with its headers and text.
FilterRaw(k, subject, from, to, text, date) ==
  [mid |-> k, body |-> 1, bad |-> FALSE, subject |-> subject, from |-> from,
   to |-> to, text |-> text, date |-> date]

FilterRaws(k) ==
  {FilterRaw(k, s, f, o, x, d) :
     s \in FieldTexts, f \in FieldTexts, o \in FieldTexts, x \in FieldTexts,
     d \in DateHeaders}

\* The records 'Invoice #1' of day 1, 'Invoice #2' of day 3 and 'Report' of
\* day 4, their Date headers naming the zone z.
ExampleArchive(z) ==
  <<FilterRaw(1, <<"I", "1">>, <<"R">>, <<"R">>, <<"R">>, [day |-> 1, zone |-> z]),
    FilterRaw(2, <<"I", "2">>, <<"R">>, <<"R">>, <<"R">>, [day |-> 3, zone |-> z]),
    FilterRaw(3, <<"R">>, <<"R">>, <<"R">>, <<"R">>, [day |-> 4, zone |-> z])>>

FilterArchives ==
  {<<>>}
    \cup {<<r>> : r \in FilterRaws(1)}
    \cup (IF MaxFilterRecords >= 2
          THEN {<<r, q>> : r \in FilterRaws(1), q \in FilterRaws(2)} ELSE {})
    \cup {ExampleArchive(z) : z \in {"", "+0000"}}

\* What the user types in the entries: at most two clauses are filled, and
\* two only with the subject clause.
TextValues == {<<>>, <<"I">>, <<"r">>}
ContentValues == {<<>>, <<"I">>, <<"r">>, <<"I", ",", " ", "r">>, <<" ", ",">>}
DateValues == {<<>>, <<"2">>, <<"x">>}

Filled(f) ==
  {c \in {"subject", "from", "to", "content", "date"} : f[c] # <<>>}

FilterInputs ==
  {f \in [subject : TextValues, subject_mode : Modes,
          from : TextValues, from_mode : Modes,
          to : TextValues, to_mode : Modes,
          content : ContentValues, content_mode : Modes,
          date : DateValues] :
     /\ f.subject = <<>> => f.subject_mode = "contains"
     /\ f.from = <<>> => f.from_mode = "contains"
     /\ f.to = <<>> => f.to_mode = "contains"
     /\ f.content = <<>> => f.content_mode = "contains"
     /\ Cardinality(Filled(f)) <= 2
     /\ Cardinality(Filled(f)) = 2 => "subject" \in Filled(f)}

\* The session after an archive was loaded completely (sampling rate 1, no
\* identity twice, shorter than the preview) and shown.
InitFilter ==
  \E a \in FilterArchives :
    /\ os_name = "posix"
    /\ file_size_mb = 1
    /\ disk = [p \in Paths |-> IF p = "orig" THEN InoOrig ELSE 0]
    /\ fs = [i \in Inodes |-> IF i = InoOrig THEN a ELSE <<>>]
    /\ mbox = [ino |-> InoOrig, open |-> TRUE, toc |-> Len(a), by |-> 1]
    /\ emails = [k \in 1..Len(a) |-> ExtractEmailData(1, k, a[k])]
    /\ filtered_emails = emails
    /\ emails_loaded = Len(a)
    /\ email_id_tracker = {MessageId(a[k]) : k \in 1..Len(a)}
    /\ total_emails = Len(a)
    /\ loading_cancelled = FALSE
    /\ selected_email_indices = {}
    /\ current_page = 0
    /\ total_pages = Pages(Len(a))
    /\ queue = <<>>
    /\ ui = [cancel_button |-> "disabled", remove_button |-> "normal",
             export_button |-> "normal", filters |-> NoFilters]
    /\ ld = [w \in LWorkers |-> IF w = 1 THEN [IdleLd EXCEPT !.pc = "done"] ELSE IdleLd]
    /\ rw = [w \in RWorkers |-> IdleRw]
    /\ hist = InitHist

NextFilter ==
  \/ \E f \in FilterInputs : apply_filters(f)
  \/ clear_filters

SpecFilter == InitFilter /\ [][NextFilter]_vars

\* ------------------------------------------------------------ edits and exports

\* Archives of the runs with edits: records without a Message-ID header whose
\* bodies differ.
EditArchives ==
  {a \in Archives :
     /\ Len(a) \in 1..MaxRewriteRecords
     /\ \A k \in 1..Len(a) : ~a[k].bad /\ a[k].mid = 0 /\ a[k].body = k}

\* What the user types in the content entry in these runs.
EditFilters == {OneFilter(<<"I">>, m) : m \in Modes}

\* The session after browse_file loaded archive a completely (sampling rate
\* 1) and the consumer took every event; the user has asked for an export
\* once and did not confirm it.  A file may be at the path the user will
\* choose for an export to a new file.
InitEdit ==
  \E a \in EditArchives : \E stale \in {<<>>, <<a[1]>>} :
    LET L == LoadAll(1, a)
    IN  /\ os_name \in {"nt", "posix"}
        /\ file_size_mb = 1
        /\ disk = [p \in Paths |-> IF p = "orig" THEN InoOrig
                                   ELSE IF p = "new" /\ stale # <<>> THEN InoNew(1)
                                   ELSE 0]
        /\ fs = [i \in Inodes |-> IF i = InoOrig THEN a
                                  ELSE IF i = InoNew(1) THEN stale ELSE <<>>]
        /\ mbox = [ino |-> InoOrig, open |-> TRUE, toc |-> Len(a), by |-> 1]
        /\ emails = L.emails
        /\ emails_loaded = L.loaded
        /\ email_id_tracker = L.tracker
        /\ total_emails = Len(a)
        /\ loading_cancelled = FALSE
        /\ selected_email_indices = {}
        /\ current_page = 0
        /\ total_pages = Pages(Len(L.emails))
        /\ filtered_emails = L.emails
        /\ queue = <<>>
        /\ ui = [cancel_button |-> "disabled", remove_button |-> "normal",
                 export_button |-> "normal", filters |-> NoFilters]
        /\ ld = [w \in LWorkers |-> IF w = 1 THEN [IdleLd EXCEPT !.pc = "done"] ELSE IdleLd]
        /\ rw = [w \in RWorkers |-> IdleRw]
        /\ hist = [InitHist EXCEPT !.export_calls = MaxExportCalls - 1]

NextEdit ==
  \/ \E f \in EditFilters : apply_filters(f)
  \/ clear_filters
  \/ display_email_content
  \/ toggle_select_all
  \/ remove_selected
  \/ export_remaining
  \/ export_to_new_file
  \/ \E w \in RWorkers : modify_original_mbox(w)
  \/ \E w \in RWorkers : export_to_new_file_worker(w)
  \/ check_queue

SpecEdit == InitEdit /\ [][NextEdit]_vars

\* ------------------------------------------------------------ a second ingestion

\* The session after browse_file loaded archive a completely (sampling rate
\* 1) and the consumer took every event; the user has asked for an export
\* once and did not confirm it.
InitReload ==
  \E a \in EditArchives :
    LET L == LoadAll(1, a)
    IN  /\ os_name \in {"nt", "posix"}
        /\ file_size_mb = 1
        /\ disk = [p \in Paths |-> IF p = "orig" THEN InoOrig ELSE 0]
        /\ fs = [i \in Inodes |-> IF i = InoOrig THEN a ELSE <<>>]
        /\ mbox = [ino |-> InoOrig, open |-> TRUE, toc |-> Len(a), by |-> 1]
        /\ emails = L.emails
        /\ emails_loaded = L.loaded
        /\ email_id_tracker = L.tracker
        /\ total_emails = Len(a)
        /\ loading_cancelled = FALSE
        /\ selected_email_indices = {}
        /\ current_page = 0
        /\ total_pages = Pages(Len(L.emails))
        /\ filtered_emails = L.emails
        /\ queue = <<>>
        /\ ui = [cancel_button |-> "disabled", remove_button |-> "normal",
                 export_button |-> "normal", filters |-> NoFilters]
        /\ ld = [w \in LWorkers |-> IF w = 1 THEN [IdleLd EXCEPT !.pc = "done"] ELSE IdleLd]
        /\ rw = [w \in RWorkers |-> IdleRw]
        /\ hist = [InitHist EXCEPT !.export_calls = MaxExportCalls - 1]

\* The user picks the archive again, before or during a rewrite.
NextReload ==
  \/ browse_file
  \/ cancel_loading
  \/ \E w \in LWorkers : load_mbox(w)
  \/ export_remaining
  \/ \E w \in RWorkers : modify_original_mbox(w)
  \/ check_queue

SpecReload == InitReload /\ [][NextReload]_vars

\* ------------------------------------------------------------ C1 .. C4

OrigFile == <<disk["orig"], FileAt(disk, fs, "orig")>>

\* C1: during a rewrite the original is neither removed, renamed over nor
\* written until the worker has added every kept record to the temporary
\* mailbox and flushed and closed it: every step that changes the file at the
\* original's path is a step of a worker that is past the flush and close of
\* its temporary mailbox, with its loop over the kept records finished.  So a
\* worker that fails during the temporary write has left the original alone,
\* and the original is what it was at the call unless another rewrite replaced
\* it meanwhile.  (Violated: a second rewrite opens the temporary file of the
\* first, the first renames that file over the original, and the second then
\* adds its records to it.)
C1_OriginalUntouchedUntilTempClosed ==
  [][/\ OrigFile' # OrigFile =>
          \E w \in RWorkers :
            /\ rw'[w] # rw[w]
            /\ rw[w].pc \in {"replace", "rename"}
            /\ hist.rw[w].temp_done
            /\ rw[w].i >= Len(rw[w].list)
     /\ \A w \in RWorkers :
          (hist'.rw[w].outcome = "write_failed"
             /\ \A v \in RWorkers \ {w} : ~hist'.rw[v].touched)
            => FileAt(disk', fs', "orig") = hist'.rw[w].orig0]_vars

\* C2: when the replace step fails after the temporary file was written, the
\* original is still at its path and unchanged, on every platform.
C2_OriginalKeptWhenReplaceFails ==
  \A w \in RWorkers :
    hist.rw[w].outcome = "replace_failed" =>
      /\ disk["orig"] # 0
      /\ FileAt(disk, fs, "orig") = hist.rw[w].orig0

\* C3: a rewrite for which the user asked for a backup never runs without a
\* complete backup of the original.
C3_RequestedBackupIsMade ==
  \A w \in RWorkers :
    (hist.rw[w].backup_requested /\ rw[w].pc # "idle") => hist.rw[w].backup_complete

\* C4: when the backup copy fails, export_remaining starts no rewrite worker,
\* leaves the temporary path and the original as they are, and changes neither
\* the live archive handle nor the record sets.
C4_BackupFailureAbortsRewrite ==
  [][(\E backup_path \in {"backup"},
         outcome \in BackupOutcomes(Len(FileAt(disk, fs, "orig").data)) :
        ExportBackupFailed(backup_path, outcome))
       => /\ rw' = rw
          /\ disk'["temp"] = disk["temp"]
          /\ FileAt(disk', fs', "temp") = FileAt(disk, fs, "temp")
          /\ OrigFile' = OrigFile
          /\ mbox' = mbox
          /\ emails' = emails
          /\ filtered_emails' = filtered_emails]_vars

\* C4, its case: a backup copy that failed partway left a shorter file at the
\* backup path, and no rewrite worker has been started.
C4_Witness ==
  /\ hist.export_calls = 1
  /\ disk["backup"] # 0
  /\ Len(FileAt(disk, fs, "backup").data) < Len(FileAt(disk, fs, "orig").data)
  /\ Len(FileAt(disk, fs, "backup").data) >= 1
  /\ \A w \in RWorkers : rw[w].pc = "idle"

\* ------------------------------------------------------------ C5 .. C10

\* The runs in which browse_file was called once.
OneIngestion == Cardinality({w \in LWorkers : ld[w].pc # "idle"}) = 1

\* C5: at every point during and after an ingestion, every record of
\* self.emails has a non-empty identity and no two entries of self.emails
\* share an identity (stated for the runs with a single ingestion).
C5_LoadedIdentitiesUnique ==
  OneIngestion =>
    \A j \in 1..Len(emails) :
      /\ Len(emails[j].message_id) > 0
      /\ \A k \in 1..Len(emails) :
           j # k => emails[j].message_id # emails[k].message_id

\* C6: among the records one ingestion appends, no two carry the same
\* identity: the record stored for an identity is its first occurrence and no
\* later occurrence is stored.
C6_OnlyFirstOccurrenceStored ==
  \A w \in LWorkers :
    \A p \in hist.ld[w].stored, q \in hist.ld[w].stored :
      p < q =>
        MessageId(FileAt(disk, fs, "orig").data[p])
          # MessageId(FileAt(disk, fs, "orig").data[q])

\* C7: an ingestion ends in exactly one terminal outcome: a worker that
\* reported the cancellation puts no further event and reports neither a
\* completed load nor a failure, no worker reports both a completed load and
\* a failure, and a finished worker reported one of the three.
C7_OneTerminalOutcome ==
  \A w \in LWorkers :
    LET h == hist.ld[w]
    IN  /\ ~(h.completed_reported /\ h.failed_reported)
        /\ h.cancel_reported >= 0 =>
             ~h.after_cancel /\ ~h.completed_reported /\ ~h.failed_reported
        /\ ld[w].pc = "done" =>
             h.cancel_reported >= 0 \/ h.completed_reported \/ h.failed_reported

\* C8: the count of the cancellation notification is the number of records
\* in self.emails after the final flush of that ingestion (stated for the
\* runs with a single ingestion).
C8_CancelledCountIsVisibleCount ==
  OneIngestion =>
    \A w \in LWorkers :
      (hist.ld[w].cancel_reported >= 0 /\ hist.ld[w].flushed >= 0)
        => hist.ld[w].flushed = hist.ld[w].cancel_reported

\* C9: once cancel_loading was called during an ingestion, its worker reads
\* at most the record it reads next, and when it ends without a failure every
\* record it appended is in self.emails.
C9_CancelStopsWorker ==
  [][\A w \in LWorkers :
       hist.ld[w].cancel_at >= 0 =>
         /\ ld'[w].i <= hist.ld[w].cancel_at + 1
         /\ (ld[w].pc # "done" /\ ld'[w].pc = "done"
               /\ ~hist'.ld[w].failed_reported)
              => \A p \in hist.ld[w].stored :
                   \E k \in 1..Len(emails') :
                     emails'[k].w = w /\ emails'[k].pos = p]_vars

\* C10: at most one ingestion worker is running at any time.
C10_OneIngestionWorker == Cardinality(ActiveLd(ld)) <= 1

\* ------------------------------------------------------------ C11, C14 .. C16

\* The rewrite workers whose thread is running.
ActiveRw(r) == {w \in RWorkers : r[w].pc \notin {"idle", "done"}}

\* C11: at most one rewrite worker is running at any time, and no two rewrite
\* workers have the same temporary file open for writing.
C11_OneExportWorker ==
  /\ Cardinality(ActiveRw(rw)) <= 1
  /\ \A w \in RWorkers, v \in RWorkers :
       (w # v /\ rw[w].pc = "write" /\ rw[v].pc = "write") => rw[w].ino # rw[v].ino

\* C14: a step of an ingestion worker changes what the consumer sees only by
\* putting events on the queue (it leaves the record list, the counters and
\* the pagination fields alone), and the consumer does not copy the record
\* list while an ingestion worker is running.
C14_HandOverThroughQueueOnly ==
  [][/\ (\E w \in LWorkers : load_mbox(w))
          => UNCHANGED <<emails, emails_loaded, total_emails, current_page, total_pages>>
     /\ (check_queue /\ ActiveLd(ld) # {})
          => \A k \in 1..(Len(queue) - Len(queue')) :
               queue[k].tag \notin {"display_emails", "preview_emails"}]_vars

\* C15: when a fatal error ends an ingestion, every record it had counted as
\* loaded is in self.emails afterwards (stated for the runs with a single
\* ingestion), and the failure event was put.
C15_LoadedKeptAfterFailure ==
  OneIngestion =>
    \A w \in LWorkers :
      (ld[w].pc = "done" /\ ~hist.ld[w].completed_reported) =>
        /\ hist.ld[w].failed_reported
        /\ \A p \in hist.ld[w].stored :
             \E k \in 1..Len(emails) : emails[k].w = w /\ emails[k].pos = p

\* The record an ingestion worker reads next.
NextRecord(w) == fs[ld[w].ino][ld[w].i + 1]

\* The step in which worker w runs the extraction on a record it raises on:
\* the record was read, the flag was not set and sampling kept the record.
ExtractionFails(w) ==
  /\ ld[w].pc = "loop"
  /\ ld[w].i < Len(fs[ld[w].ino])
  /\ NextRecord(w).bad
  /\ ~loading_cancelled
  /\ ld'[w].i = ld[w].i + 1
  /\ ~(ld[w].sampling_rate > 1 /\ (ld[w].email_count + 1) % ld[w].sampling_rate # 0)

\* C16: an extraction failure on one record leaves the loaded counter, the
\* identity tracker, the chunk and the record list unchanged, puts no failure
\* event, and the worker stays in its loop; so a worker that read a whole
\* archive of failing records ends with a completed load.
C16_ExtractionFailureIsolated ==
  [][\A w \in LWorkers :
       ExtractionFails(w) =>
         /\ emails_loaded' = emails_loaded
         /\ email_id_tracker' = email_id_tracker
         /\ emails' = emails
         /\ ld'[w].current_chunk = ld[w].current_chunk
         /\ ld'[w].pc = "loop"
         /\ hist'.ld[w].failed_reported = hist.ld[w].failed_reported
         /\ hist'.ld[w].stored = hist.ld[w].stored]_vars

\* C16, its case: a worker read an archive of the longest length in which
\* every record fails in the extraction, and reported a completed load.
C16_Witness ==
  \E w \in LWorkers :
    /\ ld[w].pc = "done"
    /\ ld[w].i = MaxRecords
    /\ \A k \in 1..MaxRecords : FileAt(disk, fs, "orig").data[k].bad
    /\ Len(FileAt(disk, fs, "orig").data) = MaxRecords
    /\ hist.ld[w].completed_reported
    /\ ~hist.ld[w].failed_reported
    /\ emails_loaded = 0

\* ------------------------------------------------------------ C19, C20

\* A text clause as the filter frame states it: an empty value passes every
\* record; else the lower-cased value is, or is not, a substring of the
\* lower-cased field.
TextClausePasses(value, mode, field) ==
  \/ value = <<>>
  \/ mode = "contains" /\ Contains(Lower(value), Lower(field))
  \/ mode = "does not contain" /\ ~Contains(Lower(value), Lower(field))

\* The content clause: every word of the list is in the body, or none is.
ContentClausePasses(value, mode, body) ==
  LET words == ContentWords(Lower(value))
  IN  \/ words = <<>>
      \/ mode = "contains"
           /\ \A k \in DOMAIN words : Contains(words[k], Lower(body))
      \/ mode = "does not contain"
           /\ \A k \in DOMAIN words : ~Contains(words[k], Lower(body))

\* The date clause: a record without a date passes, else its day is the
\* cutoff or later.
DateClausePasses(value, date) ==
  \/ StrptimeDay(value) = 0
  \/ date.day = 0
  \/ date.day >= StrptimeDay(value)

PassesFilters(e, f) ==
  /\ TextClausePasses(f.subject, f.subject_mode, Header(e.raw, "subject"))
  /\ TextClausePasses(f.from, f.from_mode, Header(e.raw, "from"))
  /\ TextClausePasses(f.to, f.to_mode, Header(e.raw, "to"))
  /\ ContentClausePasses(f.content, f.content_mode, ExtractEmailBody(e.raw))
  /\ DateClausePasses(f.date, DateObj(e.raw))

\* The filter "subject contains 'invoice', date after day 2".
ExampleFilter == [NoFilters EXCEPT !.subject = <<"i">>, !.date = <<"2">>]

IsExample(es) ==
  /\ Len(es) = 3
  /\ \A k \in 1..3 :
       /\ Header(es[k].raw, "subject") = Header(ExampleArchive("")[k], "subject")
       /\ DateHeader(es[k].raw).day = DateHeader(ExampleArchive("")[k]).day

\* C19: with loaded records, the view the filter frame's entries leave is
\* exactly the records of self.emails that pass every filled clause, in their
\* order; on the records A, B, C of the example with "subject contains
\* invoice, date after day 2" it is B alone.
C19_ViewIsThePassingRecords ==
  emails # <<>> =>
    /\ filtered_emails = SelectSeq(emails, LAMBDA e : PassesFilters(e, ui.filters))
    /\ (IsExample(emails) /\ ui.filters = ExampleFilter) => filtered_emails = <<emails[2]>>

\* The filter with the value v in clause c alone, in mode m.
OneClause(c, v, m) ==
  CASE c = "subject" -> [NoFilters EXCEPT !.subject = v, !.subject_mode = m]
    [] c = "from" -> [NoFilters EXCEPT !.from = v, !.from_mode = m]
    [] c = "to" -> [NoFilters EXCEPT !.to = v, !.to_mode = m]
    [] c = "content" -> [NoFilters EXCEPT !.content = v, !.content_mode = m]

TextClauses == {"subject", "from", "to", "content"}

\* The clause of a filter whose other clauses are empty.
SoleClause(f) == CHOOSE c \in TextClauses : f = OneClause(c, f[c], f[c \o "_mode"])

HasSoleClause(f) ==
  \E c \in TextClauses : f = OneClause(c, f[c], f[c \o "_mode"]) /\ f[c] # <<>>

OtherMode(m) == IF m = "contains" THEN "does not contain" ELSE "contains"

\* The view lines 1167-1206 leave for the same clause value in the other mode.
OtherView(es, f) ==
  LET c == SoleClause(f)
  IN  FilterLoop(es, OneClause(c, f[c], OtherMode(f[c \o "_mode"])), 1, <<>>).list

Range(s) == {s[k] : k \in DOMAIN s}

\* C20 as stated: for every clause and every value of it that is not empty,
\* the other clauses empty, the view in one mode and the view in the other
\* mode are disjoint and every record is in one of them.
C20_ModesAreComplements ==
  \A c \in TextClauses :
    (/\ emails # <<>>
     /\ ui.filters[c] # <<>>
     /\ \E m \in Modes : ui.filters = OneClause(c, ui.filters[c], m)) =>
      LET other == FilterLoop(emails, OneClause(c, ui.filters[c],
                                OtherMode(ui.filters[c \o "_mode"])), 1, <<>>).list
      IN  /\ Range(filtered_emails) \cap Range(other) = {}
          /\ Range(filtered_emails) \cup Range(other) = Range(emails)

\* C20, amended: for a subject, from or to clause with a value that is not
\* empty, and for a content clause that lists exactly one word, the views of
\* the two modes are disjoint and together hold every record; for a content
\* clause that lists several words the two views are disjoint.
C20_ModesAreComplementsForOneWord ==
  (emails # <<>> /\ HasSoleClause(ui.filters)) =>
    LET c     == SoleClause(ui.filters)
        other == OtherView(emails, ui.filters)
        words == ContentWords(Lower(ui.filters.content))
    IN  /\ (c # "content" \/ Len(words) >= 1)
           => Range(filtered_emails) \cap Range(other) = {}
        /\ (c # "content" \/ Len(words) = 1)
           => Range(filtered_emails) \cup Range(other) = Range(emails)

\* C20, its case: a content clause of one word was applied to two records, one
\* of which has the word.
C20_Witness ==
  /\ Len(emails) = 2
  /\ HasSoleClause(ui.filters)
  /\ SoleClause(ui.filters) = "content"
  /\ Len(ContentWords(Lower(ui.filters.content))) = 1
  /\ Len(filtered_emails) = 1
  /\ Len(OtherView(emails, ui.filters)) = 1

\* ------------------------------------------------------------ C13, C17, C18

\* C13: a step of apply_filters, clear_filters, remove_selected,
\* display_email_content or toggle_select_all is taken only while no ingestion
\* worker and no export worker is running.
C13_EditsOnlyWhenNoWorker ==
  [][(\/ hist'.filterings # hist.filterings
      \/ hist'.removals # hist.removals
      \/ hist'.selections # hist.selections)
       => (ActiveLd(ld) = {} /\ ActiveRw(rw) = {})]_vars

\* The raw records of a list of email_data.
Raws(es) == [k \in DOMAIN es |-> es[k].raw]

\* C17: in the step that ends a rewrite with success, self.emails holds, in
\* order, the records of the file now at the original's path, and they are
\* the records of the view as it was when the rewrite was asked for.
C17_LiveSetIsTheRewrittenFile ==
  [][\A w \in RWorkers :
       (hist.rw[w].outcome # "ok" /\ hist'.rw[w].outcome = "ok") =>
         /\ Raws(emails') = FileAt(disk', fs', "orig").data
         /\ emails' = hist.rw[w].view0]_vars

\* C18: in the step that ends an export to a new file with success, the file
\* at the destination holds exactly the records of the view as it was when
\* the export was asked for, each once and in the order of the view.
C18_ExportIsTheRequestedView ==
  [][\A w \in RWorkers :
       (hist.rw[w].outcome # "exported" /\ hist'.rw[w].outcome = "exported") =>
         FileAt(disk', fs', "new").data = Raws(hist.rw[w].view0)]_vars

\* ------------------------------------------------------------ C12

\* C12: no ingestion worker is in its loop over the archive while a rewrite
\* worker is closing self.mbox, replacing the file or reopening it.
C12_HandleUsedByOneOperation ==
  \A l \in LWorkers, w \in RWorkers :
    ~(/\ ld[l].pc = "loop"
      /\ rw[w].pc \in {"close_orig", "replace", "rename", "reopen"})

\* ------------------------------------------------------------ C21

\* The entries with the date clause filled only.
DateOnly(f) == f = [NoFilters EXCEPT !.date = f.date]

\* C21: with the date clause alone, a loaded record is missing from the view
\* only when the entry was parsed as a date, the record has a parsed date and
\* that date is strictly before the cutoff; every record with an unparseable
\* Date header is loaded, its raw header kept.
C21_DateClauseRejectsOnlyEarlier ==
  (emails # <<>> /\ DateOnly(ui.filters)) =>
    /\ \A k \in DOMAIN emails :
         emails[k] \notin Range(filtered_emails) =>
           /\ StrptimeDay(ui.filters.date) # 0
           /\ DateObj(emails[k].raw).day # 0
           /\ DateObj(emails[k].raw).day < StrptimeDay(ui.filters.date)
    /\ \A k \in DOMAIN fs[InoOrig] :
         DateObj(fs[InoOrig][k]) = NoDate =>
           \E j \in DOMAIN emails : emails[j].raw = fs[InoOrig][k]

\* ------------------------------------------------------------ C22

\* check_queue takes a display_emails or preview_emails event in this step.
TakesViewEvent ==
  /\ check_queue
  /\ \E k \in 1..(Len(queue) - Len(queue')) :
       queue[k].tag \in {"display_emails", "preview_emails"}

\* C22: a step of apply_filters or clear_filters on loaded records, and a step
\* of check_queue that takes a preview or display event, leaves the selection
\* set empty.
C22_NewViewHasNoSelection ==
  [][((hist'.filterings # hist.filterings /\ emails # <<>>) \/ TakesViewEvent)
       => selected_email_indices' = {}]_vars

\* ------------------------------------------------------------ C23

\* The records at the positions K (from 0) of the view fe.
RecordsAt(fe, K) == {fe[k + 1] : k \in K \cap (0..(Len(fe) - 1))}

\* The positions remove_selected works on: the tracked selection in the mode
\* "all pages", else the rows selected in the list.
SelectedPositions(mode, selected_items) ==
  IF mode = "all pages" /\ selected_email_indices # {}
  THEN selected_email_indices ELSE selected_items

\* C23: a step of remove_selected with a selection leaves self.emails and
\* the view without the selected records, every other record of both in its
\* place in the order; total_pages is max(1, ceil(size of the view / page
\* size)) and current_page is below it.
C23_RemovesExactlyTheSelected ==
  [][\A mode \in {"current page", "all pages"} :
       \A selected_items \in SUBSET PageIndices(filtered_emails, current_page) :
         (/\ RemoveSelected(mode, selected_items)
          /\ SelectedPositions(mode, selected_items) # {}) =>
           LET sel  == RecordsAt(filtered_emails,
                                 SelectedPositions(mode, selected_items))
               Kept(e) == e \notin sel
           IN  /\ emails' = SelectSeq(emails, Kept)
               /\ filtered_emails' = SelectSeq(filtered_emails, Kept)
               /\ total_pages' = Max(1, (Len(filtered_emails') + emails_per_page - 1)
                                          \div emails_per_page)
               /\ current_page' < total_pages']_vars

\* ------------------------------------------------------------ C24

\* Lines 558-561 do not apply: the total is not above 1,000,000 or the rate
\* not above 100.
SequentialMode(w) ==
  ~(total_emails > RANDOM_TOTAL_MIN /\ ld[w].sampling_rate > RANDOM_RATE_MIN)

\* The archive holds no identity twice and no record the extraction fails on.
DistinctAndSound(a) ==
  /\ \A k \in DOMAIN a : ~a[k].bad
  /\ \A j \in DOMAIN a, k \in DOMAIN a : j # k => MessageId(a[j]) # MessageId(a[k])

\* The worker read its archive to the end: it reported a completed load and
\* cancel_loading was not called during it.
ReadToTheEnd(w) ==
  /\ hist.ld[w].completed_reported
  /\ hist.ld[w].cancel_at < 0
  /\ hist.ld[w].cancel_reported < 0

\* C24: an ingestion in sequential mode with sampling rate N that read an
\* archive of distinct, sound records to the end has stored exactly the
\* records at the positions N, 2N, 3N, ... (every record for N = 1), so
\* floor(number of records / N) of them.
C24_SequentialSamplingTakesEveryNth ==
  \A w \in LWorkers :
    (/\ ReadToTheEnd(w)
     /\ SequentialMode(w)
     /\ DistinctAndSound(fs[InoOrig])) =>
      /\ hist.ld[w].stored =
           {p \in 1..Len(fs[InoOrig]) : p % ld[w].sampling_rate = 0}
      /\ Cardinality(hist.ld[w].stored) = Len(fs[InoOrig]) \div ld[w].sampling_rate

\* ------------------------------------------------------------ C25

\* C25: two ingestions of the same archive with sampling rate 1 that both
\* read it to the end leave the same loaded count and the same sequence of
\* identities in self.emails.
C25_SecondIngestionGivesTheSame ==
  \A w \in LWorkers, v \in LWorkers :
    (/\ ReadToTheEnd(w) /\ ld[w].sampling_rate = 1
     /\ ReadToTheEnd(v) /\ ld[v].sampling_rate = 1) =>
      /\ hist.ld[w].loaded = hist.ld[v].loaded
      /\ hist.ld[w].ids = hist.ld[v].ids

\* ------------------------------------------------------------ C26

\* The events whose text is formatted with temp_file_path (line 1620: "Error:
\* Original file unchanged, temp file at ...").
NamesTempPath(e) == e.tag = "status" /\ e.data = "orig_unchanged_temp_at"

\* C26: when opening, filling or flushing the temporary file fails in a
\* rewrite worker, an event the worker puts in that step names the path of
\* the temporary file.
C26_WriteFailureNamesTempFile ==
  [][\A w \in RWorkers :
       (/\ rw[w].pc \in {"start", "write"}
        /\ hist.rw[w].outcome # "write_failed"
        /\ hist'.rw[w].outcome = "write_failed") =>
         \E k \in (Len(queue) + 1)..Len(queue') : NamesTempPath(queue'[k])]_vars

\* ------------------------------------------------------------ C27

\* Worker w puts the preview event in this step.
PutsPreview(w) ==
  /\ ld'[w] # ld[w]
  /\ \E k \in (Len(queue) + 1)..Len(queue') : queue'[k].tag = "preview_emails"

\* The k-th smallest element of a set of numbers.
Nth(S, k) == CHOOSE p \in S : Cardinality({q \in S : q < p}) = k - 1

\* C27: a worker puts the preview event at most once; it puts it in the step
\* in which the loaded count reaches the preview size while self.emails is
\* empty; after the step self.emails holds exactly the records the worker has
\* loaded so far, in order, as many as the preview size; and the worker is
\* still in its loop.
C27_PreviewOnceWithTheFirstRecords ==
  [][\A w \in LWorkers :
       PutsPreview(w) =>
         /\ ~hist.ld[w].previewed
         /\ emails = <<>>
         /\ emails_loaded' = PREVIEW_AT
         /\ Len(emails') = PREVIEW_AT
         /\ Cardinality(hist'.ld[w].stored) = PREVIEW_AT
         /\ \A k \in 1..Len(emails') :
              /\ emails'[k].w = w
              /\ emails'[k].pos = Nth(hist'.ld[w].stored, k)
         /\ ld'[w].pc = "loop"]_vars

\* ------------------------------------------------------------ C28

\* C28: while a worker samples by the draw (total above 1,000,000 and rate
\* above 100), the record it reads next is processed whenever the draw
\* accepts it, at whatever position it is.
C28_RandomSamplingIgnoresPosition ==
  \A w \in LWorkers :
    (/\ ld[w].pc = "loop"
     /\ ld[w].i < Len(fs[ld[w].ino])
     /\ ~SequentialMode(w)) =>
      ~Skipped(ld[w].sampling_rate, ld[w].email_count + 1, total_emails, TRUE)

\* ------------------------------------------------------------ C29

\* Worker w renames the temporary file over the original in this step.
Replaces(w) == rw[w].pc \in {"replace", "rename"} /\ rw'[w].pc = "reopen"

\* C29: a rewrite worker that opens the temporary path starts with no key of
\* the file it finds there; and when it found records there and no other
\* worker had the path in use during its rewrite, the file it renames over
\* the original holds exactly the records of the list it wrote, in order.
C29_StaleTempContributesNothing ==
  [][\A w \in RWorkers :
       /\ (rw[w].pc = "start" /\ rw'[w].pc = "write") => rw'[w].toc = <<>>
       /\ (Replaces(w) /\ hist.rw[w].stale /\ ~hist.rw[w].shared) =>
            fs'[disk'["orig"]] = [k \in DOMAIN rw[w].list |-> rw[w].list[k].raw]]_vars

\* C29, its case: a worker that found records of a failed rewrite in the
\* temporary file has renamed its own file over the original.
C29_Witness ==
  \E w \in RWorkers, v \in RWorkers :
    /\ rw[w].pc = "reopen"
    /\ hist.rw[w].stale /\ ~hist.rw[w].shared
    /\ hist.rw[v].outcome = "write_failed"
    /\ rw[w].list # <<>>
    /\ disk["orig"] # 0
    /\ fs[disk["orig"]] = [k \in DOMAIN rw[w].list |-> rw[w].list[k].raw]

\* ------------------------------------------------------------ the body of a multi-part record

\* Most parts of a record.
MaxParts == 2

\* The letter that only the part at position k carries.
Marker(k) == <<"a", "b", "c", "d">>[k]

\* The part at position k: plain text, or HTML with a tag before its text.
PartsAt(k) ==
  {[content_type |-> t, attachment |-> x,
    payload |-> IF t = "text/html" THEN <<"<", "p", ">", Marker(k)>>
                ELSE <<Marker(k)>>] :
     t \in {"text/plain", "text/html"}, x \in BOOLEAN}

RECURSIVE PartLists(_)
PartLists(n) ==
  IF n = 0 THEN {<<>>}
  ELSE PartLists(n - 1)
         \cup {Append(ps, p) : ps \in {q \in PartLists(n - 1) : Len(q) = n - 1},
                               p \in PartsAt(n)}

\* Archives of one multi-part record.
BodyArchives ==
  {<<[mid |-> 1, body |-> 1, bad |-> FALSE, parts |-> ps]>> :
     ps \in PartLists(MaxParts) \ {<<>>}}

\* The application after __init__ with the archive on the disk.
InitBody ==
  \E a \in BodyArchives :
    /\ os_name = "posix"
    /\ file_size_mb = 1
    /\ disk = [p \in Paths |-> IF p = "orig" THEN InoOrig ELSE 0]
    /\ fs = [i \in Inodes |-> IF i = InoOrig THEN a ELSE <<>>]
    /\ mbox = NoHandle
    /\ emails = <<>>
    /\ filtered_emails = <<>>
    /\ emails_loaded = 0
    /\ total_emails = 0
    /\ loading_cancelled = FALSE
    /\ email_id_tracker = {}
    /\ selected_email_indices = {}
    /\ current_page = 0
    /\ total_pages = 0
    /\ queue = <<>>
    /\ ui = [cancel_button |-> "disabled", remove_button |-> "disabled",
             export_button |-> "disabled", filters |-> NoFilters]
    /\ ld = [w \in LWorkers |-> IdleLd]
    /\ rw = [w \in RWorkers |-> IdleRw]
    /\ hist = InitHist

NextBody ==
  \/ browse_file
  \/ cancel_loading
  \/ \E w \in LWorkers : load_mbox(w)
  \/ check_queue

SpecBody == InitBody /\ [][NextBody]_vars

\* ------------------------------------------------------------ C30

\* The positions of the parts of ps that are of type t and not attachments.
PartsOf(ps, t) ==
  {k \in DOMAIN ps : ps[k].content_type = t /\ ~ps[k].attachment}

\* The text of part k is in the body text.
Contributes(body, k) == Contains(<<Marker(k)>>, body)

\* C30: in the body extracted from a loaded multi-part record, the text of
\* an HTML part is present only when the record has no plain-text part that
\* is not an attachment, and then only for the first HTML part that is not
\* an attachment; the text of a part flagged as an attachment is never
\* present.
C30_HtmlOnlyWithoutPlainText ==
  \A j \in DOMAIN emails :
    LET r    == emails[j].raw
        body == emails[j].body
    IN  "parts" \in DOMAIN r =>
          \A k \in DOMAIN r.parts :
            /\ (r.parts[k].content_type = "text/html" /\ Contributes(body, k)) =>
                 /\ PartsOf(r.parts, "text/plain") = {}
                 /\ \A n \in PartsOf(r.parts, "text/html") : k <= n
            /\ r.parts[k].attachment => ~Contributes(body, k)

\* ------------------------------------------------------------ C31

\* C31: applying the filters never fails: whenever apply_filters or
\* clear_filters runs on loaded records, the loop over the records ends
\* without raising, whatever zone a record's date carries, so that the view
\* it leaves holds every record that was not skipped and the first page is
\* shown.
C31_DateFilterNeverFails ==
  [][(hist'.filterings # hist.filterings /\ emails # <<>>) =>
       /\ ~FilterLoop(emails, ui'.filters, 1, <<>>).raised
       /\ \A k \in DOMAIN emails :
            FilterRecord(emails[k], ui'.filters) = "keep" =>
              emails[k] \in Range(filtered_emails')
       /\ current_page' = 0
       /\ total_pages' = Pages(Len(filtered_emails'))]_vars

\* ------------------------------------------------------------ C32

\* The session is the one a single complete ingestion with rate 1 left, no
\* ingestion having been started since.
LoadedOnce ==
  ld = [l \in LWorkers |-> IF l = 1 THEN [IdleLd EXCEPT !.pc = "done"] ELSE IdleLd]

\* C32: round trip: when an archive of records with distinct identities was
\* loaded completely with rate 1, nothing was filtered out or removed and
\* the rewrite in place replaces the original, the archive holds the records
\* it held when the rewrite was asked for, in the same order, each once.
C32_RoundTripKeepsTheArchive ==
  [][\A w \in RWorkers :
       (Replaces(w) /\ LoadedOnce /\ hist.rw[w].view0 = emails
          /\ filtered_emails = emails) =>
         FileAt(disk', fs', "orig").data = hist.rw[w].orig0.data]_vars

\* ------------------------------------------------------------ a partial ingestion and a rewrite

\* Archives of two distinct records: both good, or the second one a record
\* extract_email_data raises on.
PartialArchives ==
  {a \in IngestArchives :
     /\ Len(a) = 2
     /\ ~a[1].bad
     /\ a[2].bad \/ Rank(a[2]) = 2}

\* The session after browse_file loaded archive a (sampling rate 1) to its
\* end and the consumer took every event; the file may be a large one, and
\* the user has asked for an export once and did not confirm it.
InitPartial ==
  \E a \in PartialArchives :
    LET L == LoadAll(1, a)
    IN  /\ os_name \in {"nt", "posix"}
        /\ file_size_mb \in {1, LARGE_FILE_MB + 1}
        /\ disk = [p \in Paths |-> IF p = "orig" THEN InoOrig ELSE 0]
        /\ fs = [i \in Inodes |-> IF i = InoOrig THEN a ELSE <<>>]
        /\ mbox = [ino |-> InoOrig, open |-> TRUE, toc |-> Len(a), by |-> 1]
        /\ emails = L.emails
        /\ emails_loaded = L.loaded
        /\ email_id_tracker = L.tracker
        /\ total_emails = Len(a)
        /\ loading_cancelled = FALSE
        /\ selected_email_indices = {}
        /\ current_page = 0
        /\ total_pages = Pages(Len(L.emails))
        /\ filtered_emails = L.emails
        /\ queue = <<>>
        /\ ui = [cancel_button |-> "disabled", remove_button |-> "normal",
                 export_button |-> "normal", filters |-> NoFilters]
        /\ ld = [w \in LWorkers |-> IF w = 1 THEN [IdleLd EXCEPT !.pc = "done"] ELSE IdleLd]
        /\ rw = [w \in RWorkers |-> IdleRw]
        /\ hist = [InitHist EXCEPT
                     !.export_calls = MaxExportCalls - 1,
                     !.ld[1].stored = {k \in 1..Len(a) : ~a[k].bad}]

NextPartial ==
  \/ browse_file
  \/ cancel_loading
  \/ \E w \in LWorkers : load_mbox(w)
  \/ export_remaining
  \/ \E w \in RWorkers : modify_original_mbox(w)
  \/ check_queue

SpecPartial == InitPartial /\ [][NextPartial]_vars

\* ------------------------------------------------------------ C33

\* The positions of the archive whose record some ingestion stored in the
\* session.
LoadedPositions == UNION {hist.ld[l].stored : l \in LWorkers}

prev_page ==
  /\ current_page > 0
  /\ current_page' = current_page - 1
  /\ UNCHANGED <<os_name, file_size_mb, disk, fs, mbox, emails, filtered_emails,
                 emails_loaded, total_emails, loading_cancelled, email_id_tracker,
                 selected_email_indices, total_pages, queue, ui, ld, rw, hist>>

\* next_page, lines 950-955.
next_page ==
  /\ current_page < total_pages - 1
  /\ current_page' = current_page + 1
  /\ UNCHANGED <<os_name, file_size_mb, disk, fs, mbox, emails, filtered_emails,
                 emails_loaded, total_emails, loading_cancelled, email_id_tracker,
                 selected_email_indices, total_pages, queue, ui, ld, rw, hist>>

\* Largest number the user types in the entry of the "Go" button.
MaxJump == 3

\* jump_to_page, lines 957-968, page being the number in the entry: a number
\* out of 1..total_pages is answered by a message box.
jump_to_page(page) ==
  /\ current_page' = IF 1 <= page /\ page <= total_pages THEN page - 1
                     ELSE current_page
  /\ UNCHANGED <<os_name, file_size_mb, disk, fs, mbox, emails, filtered_emails,
                 emails_loaded, total_emails, loading_cancelled, email_id_tracker,
                 selected_email_indices, total_pages, queue, ui, ld, rw, hist>>

\* The session of the runs with edits, the user selecting, turning the pages,
\* removing and filtering; no worker runs.
NextPages ==
  \/ \E f \in EditFilters : apply_filters(f)
  \/ clear_filters
  \/ display_email_content
  \/ toggle_select_all
  \/ remove_selected
  \/ prev_page
  \/ next_page
  \/ \E page \in 0..MaxJump : jump_to_page(page)

SpecPages == InitEdit /\ [][NextPages]_vars

\* ------------------------------------------------------------ C34

\* The view is shown in this step: check_queue takes a preview or display
\* event, the filters are applied or cleared on loaded records, records are
\* removed, or the page is turned.
ShowsView ==
  \/ TakesViewEvent
  \/ hist'.filterings # hist.filterings /\ emails # <<>>
  \/ hist'.removals # hist.removals /\ filtered_emails' # filtered_emails
  \/ prev_page
  \/ next_page
  \/ \E page \in 0..MaxJump : jump_to_page(page)

\* C34: whenever the view is shown, total_pages is max(1, ceil(size of the
\* view / page size)) and current_page is a page of 0 .. total_pages - 1.
C34_PagesFitTheView ==
  [][ShowsView =>
       /\ total_pages' = Pages(Len(filtered_emails'))
       /\ 0 <= current_page' /\ current_page' < total_pages']_vars

\* ------------------------------------------------------------ C35

\* C35: while the filter is the one of the load, every step of a selection, a
\* page turn or a removal leaves in the selection set only valid positions of
\* the view, and a position that stays in the set denotes the record it
\* denoted before the step.
C35_SelectionStaysValid ==
  [][(hist.filterings = 0 /\ hist'.filterings = 0) =>
       \A idx \in selected_email_indices' :
         /\ 0 <= idx /\ idx < Len(filtered_emails')
         /\ idx \in selected_email_indices =>
              /\ idx < Len(filtered_emails)
              /\ filtered_emails'[idx + 1] = filtered_emails[idx + 1]]_vars

\* ------------------------------------------------------------ C36

\* v is es with some of its elements left out, the others in their order.
RECURSIVE IsSubsequence(_, _)
IsSubsequence(v, es) ==
  IF v = <<>> THEN TRUE
  ELSE IF es = <<>> THEN FALSE
  ELSE IF Head(v) = Head(es) THEN IsSubsequence(Tail(v), Tail(es))
  ELSE IsSubsequence(v, Tail(es))

\* C36: the view is an order-preserving subsequence of the live record set;
\* every record of the view is in self.emails.
C36_ViewIsPartOfTheLiveSet ==
  /\ IsSubsequence(filtered_emails, emails)
  /\ Range(filtered_emails) \subseteq Range(emails)

\* ------------------------------------------------------------ the end of an ingestion

\* The application after __init__ with an archive of two records on the disk.
InitFinish == InitIngest /\ fs[InoOrig] \in PartialArchives

\* The worker threads run until they return, and the consumer polls the queue
\* every 100 ms (root.after, line 879).  The queue of the program is not
\* bounded, so that a worker is never kept from its next step for good.
FairIngest ==
  /\ InitFinish
  /\ [][NextIngest]_vars
  /\ WF_vars(check_queue)
  /\ \A w \in LWorkers : SF_vars(load_mbox(w))

\* ------------------------------------------------------------ C37

\* Worker w returns from load_mbox in this step.
Finishes(w) == ld[w].pc \in {"start", "loop", "finish"} /\ ld'[w].pc = "done"

\* C37: every ingestion worker that was started finishes; the step in which it
\* returns puts events of which the last disables the cancel button, whether
\* it completed, was cancelled or failed, and it puts none after it.
C37_WorkerEndsWithCancelDisabled ==
  /\ [][\A w \in LWorkers :
          /\ Finishes(w) =>
               /\ Len(queue') > Len(queue)
               /\ queue'[Len(queue')].tag = "cancel_button_state"
               /\ queue'[Len(queue')].data = "disabled"
          /\ ld[w].pc = "done" => ld'[w] = ld[w]]_vars
  /\ [](\A w \in LWorkers : ld[w].pc = "done" => ~ENABLED load_mbox(w))
  /\ \A w \in LWorkers : (ld[w].pc = "start") ~> (ld[w].pc = "done")

\* C37, its case: one worker was cancelled and has returned, another has
\* failed and returned, and the event put last disables the cancel button.
C37_Witness ==
  \E w \in LWorkers, v \in LWorkers :
    /\ w # v
    /\ ld[w].pc = "done" /\ hist.ld[w].cancel_reported >= 0
    /\ ld[v].pc = "done" /\ hist.ld[v].failed_reported
    /\ queue # <<>>
    /\ queue[Len(queue)].tag = "cancel_button_state"
    /\ queue[Len(queue)].data = "disabled"

\* ------------------------------------------------------------ C38

\* The progress values worker w puts on the queue in this step of its loop.
ProgressPut(w) ==
  IF ld[w].pc = "loop" /\ ld'[w].pc = "loop" /\ ld'[w].i = ld[w].i + 1
       /\ Len(queue') > Len(queue)
  THEN {queue'[k].data : k \in {j \in (Len(queue) + 1)..Len(queue') :
                                  queue'[j].tag = "progress"}}
  ELSE {}

\* C38: within one ingestion every progress value put on the queue is an
\* integer of 0..100, differs from the value put before it and is not below
\* it (last_progress_update holds the value put last, 0 before the first).
C38_ProgressOnlyGrows ==
  [][\A w \in LWorkers :
       \A v \in ProgressPut(w) :
         /\ v \in 0..100
         /\ v # ld[w].last_progress_update
         /\ v >= ld[w].last_progress_update]_vars

====
